---- MODULE Spec2Model ----
(***************************************************************************)
(* A model of baton-eks: the binding reconciliation engine (cluster-role   *)
(* and role Grant / Revoke against the aws-auth ConfigMap and the RBAC     *)
(* bindings of the cluster), the identity mapping cache of EKSClient, and  *)
(* the access-policy scope merger.                                         *)
(*                                                                         *)
(* Five groups of variables are kept in one module.  Each specification    *)
(* moves its groups and leaves the others unchanged:                       *)
(*   Spec        the engine, one caller, an API call per step, API faults  *)
(*   ConcSpec    the engine, two callers interleaved at every API call     *)
(*   CacheSpec   LoadIdentityCacheMaps and the two lookups, interleaved    *)
(*   PolicySpec  access-policy Grant / Revoke, one caller, API faults      *)
(*   PolicyConcSpec  the same handlers, two callers interleaved            *)
(*   FnSpec      the pure functions, one application per behaviour         *)
(*                                                                         *)
(* Loop variables are per iteration (the repository's tests call           *)
(* testing.T.Context, Go >= 1.24), so `bindingToUpdate = &binding` keeps   *)
(* the binding of the iteration that assigned it.                          *)
(***************************************************************************)
EXTENDS Integers, Sequences, FiniteSets, TLC

VARIABLES
    \* ---- the cluster, as the engine sees it through the Kubernetes API
    configMap,      \* the aws-auth ConfigMap: [mapUsers, rv]
    bindings,       \* the RoleBinding and ClusterRoleBinding objects (a set of records)
    revision,       \* the API server's resource version counter
    \* ---- history of the handler-per-step specification
    calls,          \* number of handler invocations so far
    last,           \* the last invocation: request, outcome, state before it
    created,        \* keys of the bindings the engine itself created
    \* ---- the callers of the handlers (engine and access policies)
    pc,             \* per caller: position inside Grant / Revoke
    req,            \* per caller: the request in progress and its locals
    done,           \* per caller: number of finished requests
    \* ---- identity mapping cache (EKSClient)
    cacheUsersMap,
    cacheGroupsMap,
    idCacheExpiry,
    identityMutex,  \* the caller holding the mutex, or NoOne
    now,            \* the clock, in minutes
    cpc,            \* per caller: position inside a lookup
    loc,            \* per caller: the locals of LoadIdentityCacheMaps
    installed,      \* history: the snapshot last installed (lines 184-185)
    lastLoad,       \* history: the last finished LoadIdentityCacheMaps call
    got,            \* history: the last lookup that returned
    \* ---- access policies (EKS access entries)
    accessEntries,  \* principals that have an access entry
    assoc,          \* (principal, policy) -> association scope
    plast,          \* history: the last access-policy handler invocation
    \* ---- the pure functions (classifier, readers, entitlement codec)
    fn              \* the last application: [op, in, out]

bindVars   == <<configMap, bindings, revision, calls, last, created>>
concVars   == <<pc, req, done>>
cacheVars  == <<cacheUsersMap, cacheGroupsMap, idCacheExpiry, identityMutex, now,
                cpc, loc, installed, lastLoad, got>>
policyVars == <<accessEntries, assoc, plast>>
fnVars     == <<fn>>
vars       == <<bindVars, concVars, cacheVars, policyVars, fnVars>>

-----------------------------------------------------------------------------
(* Values *)

ArnAlice == "arn:aws:iam::111:user/alice"
ArnBob   == "arn:aws:iam::111:user/bob"
Principals == {ArnAlice, ArnBob}

Namespaces == {"ns1", "ns2"}
ClusterScope == ""                      \* namespace == "" selects the cluster scope
Scopes == {ClusterScope} \cup Namespaces
RoleNames == {"view"}

subjectKindUser == "User"
UserSubject(username) == [kind |-> subjectKindUser, name |-> username]
GroupSubject(g) == [kind |-> "Group", name |-> g]

ClusterRoleRef(role) == [kind |-> "ClusterRole", name |-> role]
RoleRef(role) == [kind |-> "Role", name |-> role]

KindCRB == "ClusterRoleBinding"
KindRB  == "RoleBinding"

Key(b) == <<b.kind, b.ns, b.name>>

\* All orders in which a list call can return the objects of a set.
Orderings(S) ==
    {f \in [1..Cardinality(S) -> S] : \A i, j \in 1..Cardinality(S) : i # j => f[i] # f[j]}

MinOf(S) == CHOOSE x \in S : \A y \in S : x <= y
MaxOf(S) == CHOOSE x \in S : \A y \in S : x >= y

-----------------------------------------------------------------------------
(* The aws-auth ConfigMap.  Data["mapUsers"] is "absent" (no key, or blank  *)
(* after TrimSpace), "invalid" (yaml.Unmarshal fails) or a "list" of rows.  *)
(* rv is the object's resourceVersion.                                      *)

mapUser(userarn, username) == [userarn |-> userarn, username |-> username]

\* The API call of a handler that fails, if any.  A handler returns at its first
\* error, so one failure per invocation covers every case.  "cmGet" fails the
\* first read of the ConfigMap, "cmUpdate" the write of AddIAMUserMapping (or
\* its own read: both leave the ConfigMap as it was), "list" the binding
\* provider, "write" the create, update or delete of a binding.
Faults == {"none", "cmGet", "cmUpdate", "list", "write"}

\* The parse loop of GetMapUserFromAWSAuthConfigMap over a ConfigMap already read.
FindMapUser(cm, userArn) ==
    LET hits == IF cm.state = "list"
                THEN {i \in DOMAIN cm.rows :
                        cm.rows[i].userarn # "" /\ cm.rows[i].userarn = userArn}
                ELSE {}
    IN  IF hits # {}
        THEN [found |-> TRUE, username |-> cm.rows[MinOf(hits)].username]
        ELSE [found |-> FALSE, username |-> ""]

\* A variant that reports a principal without mapping as an error.
GetMapUserFromAWSAuthConfigMap_MissingIsError(cm, userArn, fault) ==
    IF fault = "cmGet" \/ ~FindMapUser(cm, userArn).found
    THEN [err |-> TRUE, found |-> FALSE, username |-> ""]
    ELSE [err |-> FALSE] @@ FindMapUser(cm, userArn)

GetMapUserFromAWSAuthConfigMap(cm, userArn, fault) ==
    IF fault = "cmGet"
    THEN [err |-> TRUE, found |-> FALSE, username |-> ""]
    ELSE [err |-> FALSE] @@ FindMapUser(cm, userArn)

\* The part of AddIAMUserMapping between its Get and its Update: the rows to write.
AddIAMUserMappingRows(cm, userArn) ==
    IF cm.state = "list"
    THEN IF \E i \in DOMAIN cm.rows : cm.rows[i].userarn = userArn
         THEN [err |-> TRUE, rows |-> cm.rows]                  \* "user already exists"
         ELSE [err |-> FALSE, rows |-> Append(cm.rows, mapUser(userArn, userArn))]
    ELSE [err |-> TRUE, rows |-> <<>>]                          \* "error unmarshalling mapUsers"

\* ConfigMaps(...).Update: optimistic concurrency on the resourceVersion read.
ConfigMapUpdate(w, obj, fault) ==
    IF fault = "cmUpdate" \/ obj.rv # w.cm.rv
    THEN [err |-> TRUE, w |-> w]
    ELSE [err |-> FALSE,
          w |-> [w EXCEPT !.cm = [obj EXCEPT !.rv = w.rev + 1], !.rev = w.rev + 1]]

-----------------------------------------------------------------------------
(* The Kubernetes API for bindings.  A name is unique per kind and          *)
(* namespace; Update carries the resourceVersion that was read.             *)

FindBinding(bs, kind, ns, name) ==
    {b \in bs : b.kind = kind /\ b.ns = ns /\ b.name = name}

ApiCreate(w, obj, fault) ==
    IF fault = "write" \/ FindBinding(w.bindings, obj.kind, obj.ns, obj.name) # {}
    THEN [err |-> TRUE, w |-> w]
    ELSE [err |-> FALSE,
          w |-> [w EXCEPT !.bindings = @ \cup {[obj EXCEPT !.rv = w.rev + 1]},
                          !.rev = w.rev + 1]]

\* A variant without the resourceVersion precondition: the last write wins.
ApiUpdate_LastWriteWins(w, obj, fault) ==
    LET cur == FindBinding(w.bindings, obj.kind, obj.ns, obj.name)
    IN  IF fault = "write" \/ cur = {}
        THEN [err |-> TRUE, w |-> w]
        ELSE [err |-> FALSE,
              w |-> [w EXCEPT !.bindings = (@ \ cur) \cup {[obj EXCEPT !.rv = w.rev + 1]},
                              !.rev = w.rev + 1]]

ApiUpdate(w, obj, fault) ==
    LET cur == FindBinding(w.bindings, obj.kind, obj.ns, obj.name)
    IN  IF fault = "write" \/ cur = {} \/ \E c \in cur : c.rv # obj.rv
        THEN [err |-> TRUE, w |-> w]
        ELSE [err |-> FALSE,
              w |-> [w EXCEPT !.bindings = (@ \ cur) \cup {[obj EXCEPT !.rv = w.rev + 1]},
                              !.rev = w.rev + 1]]

\* A variant that returns the NotFound answer as an error.
ApiDelete_NotFoundIsError(w, kind, ns, name, fault) ==
    LET cur == FindBinding(w.bindings, kind, ns, name)
    IN  IF cur = {} \/ fault = "write" THEN [err |-> TRUE, w |-> w]
        ELSE [err |-> FALSE, w |-> [w EXCEPT !.bindings = @ \ cur, !.rev = w.rev + 1]]

\* Delete: an error that is not NotFound is returned, whether the object is
\* there or not; the NotFound answer for an object that is not there is success.
ApiDelete(w, kind, ns, name, fault) ==
    LET cur == FindBinding(w.bindings, kind, ns, name)
    IN  IF fault = "write" THEN [err |-> TRUE, w |-> w]
        ELSE IF cur = {} THEN [err |-> FALSE, w |-> w]
        ELSE [err |-> FALSE, w |-> [w EXCEPT !.bindings = @ \ cur, !.rev = w.rev + 1]]

Binding(kind, ns, name, roleRef, subjects) ==
    [kind |-> kind, ns |-> ns, name |-> name, roleRef |-> roleRef,
     subjects |-> subjects, rv |-> 0]

CreateClusterRoleBinding(w, bindingName, clusterRoleName, subjects, fault) ==
    ApiCreate(w, Binding(KindCRB, ClusterScope, bindingName,
                         ClusterRoleRef(clusterRoleName), subjects), fault)

\* A variant that names the object after its first subject as well.
CreateRoleBinding_PerSubject(w, namespace, bindingName, roleRef, subjects, fault) ==
    ApiCreate(w, Binding(KindRB, namespace, bindingName \o "-" \o subjects[1].name,
                         roleRef, subjects), fault)

CreateRoleBinding(w, namespace, bindingName, roleRef, subjects, fault) ==
    ApiCreate(w, Binding(KindRB, namespace, bindingName, roleRef, subjects), fault)

UpdateClusterRoleBinding(w, binding, fault) == ApiUpdate(w, binding, fault)

UpdateRoleBinding(w, binding, fault) == ApiUpdate(w, binding, fault)

DeleteClusterRoleBinding(w, bindingName, fault) ==
    ApiDelete(w, KindCRB, ClusterScope, bindingName, fault)

DeleteRoleBinding(w, namespace, bindingName, fault) ==
    ApiDelete(w, KindRB, namespace, bindingName, fault)

\* The binding provider: the bindings whose roleRef names the role.
MatchingClusterBindings(bs, clusterRoleName) ==
    {b \in bs : b.kind = KindCRB /\ b.roleRef = ClusterRoleRef(clusterRoleName)}

MatchingRoleBindingsForClusterRole(bs, clusterRoleName) ==
    {b \in bs : b.kind = KindRB /\ b.roleRef = ClusterRoleRef(clusterRoleName)}

GetMatchingRoleBindings(bs, namespace, roleName) ==
    {b \in bs : b.kind = KindRB /\ b.ns = namespace /\ b.roleRef = RoleRef(roleName)}

-----------------------------------------------------------------------------
(* provisioning_common.go *)

filterSubjects(subjects, username) ==
    SelectSeq(subjects, LAMBDA s : ~(s.name = username /\ s.kind = subjectKindUser))

\* A variant that skips the subjects of kind User.
userAlreadyHasAccess_SkipUsers(subjects, username) ==
    /\ Len(subjects) # 0
    /\ \E i \in DOMAIN subjects :
          subjects[i].name = username /\ subjects[i].kind # subjectKindUser

userAlreadyHasAccess(subjects, username) ==
    /\ Len(subjects) # 0
    /\ \E i \in DOMAIN subjects :
          subjects[i].name = username /\ subjects[i].kind = subjectKindUser

NoBinding == [kind |-> "none"]

\* A variant that returns the first binding with subjects, whoever they are.
getExistingBindingForUser_AnySubject(matchingRoleBindings, username) ==
    LET hits == {i \in DOMAIN matchingRoleBindings :
                    Len(matchingRoleBindings[i].subjects) > 0}
    IN  IF hits = {} THEN NoBinding ELSE matchingRoleBindings[MinOf(hits)]

\* The first binding of the list that lists the user as a User subject, or NoBinding.
getExistingBindingForUser(matchingRoleBindings, username) ==
    LET hits == {i \in DOMAIN matchingRoleBindings :
                    /\ Len(matchingRoleBindings[i].subjects) > 0
                    /\ \E j \in DOMAIN matchingRoleBindings[i].subjects :
                          /\ matchingRoleBindings[i].subjects[j].name = username
                          /\ matchingRoleBindings[i].subjects[j].kind = subjectKindUser}
    IN  IF hits = {} THEN NoBinding ELSE matchingRoleBindings[MinOf(hits)]

getExistingClusterRoleBindingForUser(matchingClusterRoleBindings, username) ==
    getExistingBindingForUser(matchingClusterRoleBindings, username)

\* The delete of a RoleBinding is addressed by the namespace argument, its
\* update by the namespace of the binding itself (UpdateRoleBinding).
handleBindingUpdateOrDelete(w, binding, newSubjects, namespace, fault) ==
    IF Len(newSubjects) = 0
    THEN IF binding.kind = KindRB
         THEN DeleteRoleBinding(w, namespace, binding.name, fault)
         ELSE DeleteClusterRoleBinding(w, binding.name, fault)
    ELSE IF binding.kind = KindRB
         THEN UpdateRoleBinding(w, [binding EXCEPT !.subjects = newSubjects], fault)
         ELSE UpdateClusterRoleBinding(w, [binding EXCEPT !.subjects = newSubjects], fault)

-----------------------------------------------------------------------------
(* Grant: the three handle...Binding functions share one loop.              *)

ClusterBindingName(clusterRoleName) == "baton-" \o clusterRoleName \o "-binding"

RoleBindingName(roleName, namespace) ==
    "baton-" \o roleName \o "-" \o namespace \o "-binding"

\* The loop over the matching bindings: GrantAlreadyExists as soon as one lists
\* the user; otherwise the last binding carrying the canonical name, if any.
bindingToUpdate(matching, bindingName, username) ==
    LET named == {i \in DOMAIN matching : matching[i].name = bindingName}
    IN  IF \E i \in DOMAIN matching : userAlreadyHasAccess(matching[i].subjects, username)
        THEN [act |-> "exists", binding |-> NoBinding]
        ELSE IF Len(matching) > 0 /\ named # {}
             THEN [act |-> "update",
                   binding |-> [matching[MaxOf(named)] EXCEPT
                                   !.subjects = Append(@, UserSubject(username))]]
             ELSE [act |-> "create", binding |-> NoBinding]

Outcome(r, ok) == IF r.err THEN "error" ELSE ok

createClusterRoleBinding(w, clusterRoleName, subjectName, fault) ==
    CreateClusterRoleBinding(w, ClusterBindingName(clusterRoleName), clusterRoleName,
                             <<UserSubject(subjectName)>>, fault)

clusterRoleBuilder_createRoleBinding(w, namespace, clusterRoleName, subjectName, fault) ==
    CreateRoleBinding(w, namespace, RoleBindingName(clusterRoleName, namespace),
                      ClusterRoleRef(clusterRoleName), <<UserSubject(subjectName)>>, fault)

roleBuilder_createRoleBinding(w, namespace, roleName, subjectName, fault) ==
    CreateRoleBinding(w, namespace, RoleBindingName(roleName, namespace),
                      RoleRef(roleName), <<UserSubject(subjectName)>>, fault)

\* The write a Grant has decided on, after the list of matching bindings.
\* plan.act = "create" carries the create call to make in mk.
ApplyGrantPlan(w, plan, mk, fault) ==
    IF plan.act = "exists"
    THEN [w |-> w, outcome |-> "exists", target |-> NoBinding, made |-> {}]
    ELSE IF plan.act = "update"
         THEN LET u == IF plan.binding.kind = KindRB
                       THEN UpdateRoleBinding(w, plan.binding, fault)
                       ELSE UpdateClusterRoleBinding(w, plan.binding, fault)
              IN  [w |-> u.w, outcome |-> Outcome(u, "applied"),
                   target |-> plan.binding, made |-> {}]
         ELSE [w |-> mk.w, outcome |-> Outcome(mk, "applied"), target |-> NoBinding,
               made |-> IF mk.err THEN {} ELSE {Key(b) : b \in mk.w.bindings \ w.bindings}]

\* The write a Revoke has decided on, after the list of matching bindings:
\* drop the user from the binding found, then update or delete it.
RevokeFrom(w, found, username, namespace, fault) ==
    LET r == handleBindingUpdateOrDelete(w, found, filterSubjects(found.subjects, username),
                                         namespace, fault)
    IN  [w |-> r.w, outcome |-> Outcome(r, "revoked"), target |-> found, made |-> {}]

-----------------------------------------------------------------------------
(* The states a cluster can be in when the engine is first called.          *)

MaxCalls == 2           \* handler invocations in one behaviour of Spec

ConfigMapOf(state, rows) == [state |-> state, rows |-> rows, rv |-> 0]

\* Bindings written by other tools or by earlier runs of the engine.
ExtCRB == Binding(KindCRB, ClusterScope, "ext-crb", ClusterRoleRef("view"),
                  <<GroupSubject("devs"), UserSubject("alice")>>)
BatonCRB == Binding(KindCRB, ClusterScope, ClusterBindingName("view"),
                    ClusterRoleRef("view"), <<UserSubject(ArnBob)>>)
BatonRB1 == Binding(KindRB, "ns1", RoleBindingName("view", "ns1"),
                    ClusterRoleRef("view"), <<UserSubject("alice")>>)
ExtRB1 == Binding(KindRB, "ns1", "ext-rb", ClusterRoleRef("view"),
                  <<UserSubject(ArnAlice)>>)
ExtRB2 == Binding(KindRB, "ns2", "ext-rb", ClusterRoleRef("view"),
                  <<UserSubject(ArnBob), GroupSubject("alice")>>)
BatonRoleRB2 == Binding(KindRB, "ns2", RoleBindingName("view", "ns2"), RoleRef("view"),
                        <<UserSubject("alice"), GroupSubject("devs")>>)
DevRoleRB1 == Binding(KindRB, "ns1", "dev-rb", RoleRef("view"),
                      <<GroupSubject("devs"), UserSubject(ArnAlice)>>)
GroupCRB == Binding(KindCRB, ClusterScope, ClusterBindingName("view"),
                    ClusterRoleRef("view"), <<GroupSubject("devs")>>)

\* The clusters the engine starts on: the aws-auth ConfigMap and the bindings.
InitClusters ==
    { [cm |-> ConfigMapOf("list", <<>>), bindings |-> {}],
      [cm |-> ConfigMapOf("absent", <<>>), bindings |-> {ExtCRB}],
      [cm |-> ConfigMapOf("invalid", <<>>), bindings |-> {}],
      [cm |-> ConfigMapOf("list", <<mapUser(ArnAlice, "alice")>>),
       bindings |-> {ExtCRB, BatonRB1, BatonRoleRB2}],
      [cm |-> ConfigMapOf("list", <<mapUser(ArnAlice, ArnAlice), mapUser(ArnBob, ArnBob)>>),
       bindings |-> {BatonCRB, ExtRB1, ExtRB2, DevRoleRB1}],
      [cm |-> ConfigMapOf("list", <<mapUser(ArnAlice, ""), mapUser(ArnBob, "alice")>>),
       bindings |-> {BatonRB1, ExtRB2, BatonRoleRB2}],
      [cm |-> ConfigMapOf("list", <<mapUser(ArnAlice, ArnAlice), mapUser(ArnBob, "bob")>>),
       bindings |-> {GroupCRB}] }

\* prevOutcome, prevFault, prevCm: the outcome, the fault and the ConfigMap
\* before the call that preceded this one, when that call was the same request.
NoCall ==
    [op |-> "none", builder |-> "none", principal |-> "", role |-> "", ns |-> "",
     fault |-> "none", outcome |-> "none", username |-> "", target |-> NoBinding,
     pre |-> {}, preCm |-> ConfigMapOf("absent", <<>>), prevOutcome |-> "none",
     prevFault |-> "none", prevCm |-> ConfigMapOf("absent", <<>>)]

World == [cm |-> configMap, bindings |-> bindings, rev |-> revision]

-----------------------------------------------------------------------------
(* The handlers.  A caller runs one Grant or Revoke at a time.  A step is   *)
(* one API call (a read or a write) of the handler and the code up to the   *)
(* next one: the builders take no lock, so between two calls of one handler *)
(* another caller's calls can reach the API server.                         *)

Callers == {"c1", "c2"}
MaxRequests == 1        \* requests a caller makes in one behaviour of ConcSpec

NoPlan == [act |-> "none", binding |-> NoBinding]

\* The request in progress and the locals of its handler.
\* fault: the API call of this invocation that fails, if any.
\* failed: the call whose error the handler returned, "none" without error.
\* gone: the handler sent a delete and the binding addressed was not there.
\* preCm, prevOutcome, prevFault, prevCm: history for last.
Idle == [op |-> "none", builder |-> "none", principal |-> "", role |-> "", ns |-> "",
         fault |-> "none",
         username |-> "", obj |-> ConfigMapOf("absent", <<>>), plan |-> NoPlan,
         outcome |-> "none", failed |-> "none", gone |-> FALSE,
         preCm |-> ConfigMapOf("absent", <<>>), prevOutcome |-> "none",
         prevFault |-> "none", prevCm |-> ConfigMapOf("absent", <<>>)]

SameRequest(c, d) ==
    /\ c.op = d.op /\ c.builder = d.builder /\ c.principal = d.principal
    /\ c.role = d.role /\ c.ns = d.ns

\* What the binding provider is asked for: by the cluster-role builder, the
\* ClusterRoleBindings or (all namespaces) the RoleBindings naming the
\* ClusterRole; by the role builder, the RoleBindings of the namespace naming
\* the Role.
ProviderSet(bs, builder, role, ns) ==
    IF builder = "clusterRole"
    THEN IF ns = ClusterScope
         THEN MatchingClusterBindings(bs, role)
         ELSE MatchingRoleBindingsForClusterRole(bs, role)
    ELSE GetMatchingRoleBindings(bs, ns, role)

CanonicalName(builder, role, ns) ==
    IF builder = "clusterRole" /\ ns = ClusterScope
    THEN ClusterBindingName(role)
    ELSE RoleBindingName(role, ns)

\* Every step either keeps the cluster or sets it.
KeepWorld == UNCHANGED <<configMap, bindings, revision, created,
                         cacheVars, policyVars, fnVars>>

SetWorld(w, made) ==
    /\ configMap' = w.cm
    /\ bindings' = w.bindings
    /\ revision' = w.rev
    /\ created' = (created \cup made)
    /\ UNCHANGED <<cacheVars, policyVars, fnVars>>

\* History: the invocation that returns in this step, with the bindings as
\* they were before the step and the ConfigMap as it was at the call.
Record(c, outcome, username, target) ==
    /\ calls' = calls + 1
    /\ last' = [op |-> req[c].op, builder |-> req[c].builder,
                principal |-> req[c].principal, role |-> req[c].role, ns |-> req[c].ns,
                fault |-> req[c].fault, outcome |-> outcome, username |-> username,
                target |-> target, pre |-> bindings, preCm |-> req[c].preCm,
                prevOutcome |-> req[c].prevOutcome, prevFault |-> req[c].prevFault,
                prevCm |-> req[c].prevCm]

\* The handler returns: the caller keeps the request and its outcome.
Return(c, outcome, username) ==
    /\ pc' = [pc EXCEPT ![c] = "idle"]
    /\ done' = [done EXCEPT ![c] = @ + 1]
    /\ req' = [req EXCEPT ![c] = [@ EXCEPT !.outcome = outcome, !.username = username,
                                           !.obj = Idle.obj, !.plan = NoPlan]]
    /\ Record(c, outcome, username, NoBinding)

\* The handler returns the error of a call.
ReturnError(c, username, failed) ==
    /\ pc' = [pc EXCEPT ![c] = "idle"]
    /\ done' = [done EXCEPT ![c] = @ + 1]
    /\ req' = [req EXCEPT ![c] = [@ EXCEPT !.outcome = "error", !.username = username,
                                           !.obj = Idle.obj, !.plan = NoPlan,
                                           !.failed = failed]]
    /\ Record(c, "error", username, NoBinding)

Goto(c, label, r) ==
    /\ pc' = [pc EXCEPT ![c] = label]
    /\ req' = [req EXCEPT ![c] = r]
    /\ UNCHANGED <<done, calls, last>>

\* The request of a call, with the ConfigMap as it is at the call.
Request(op, builder, principal, role, ns, fault) ==
    [Idle EXCEPT !.op = op, !.builder = builder, !.principal = principal,
                 !.role = role, !.ns = ns, !.fault = fault, !.preCm = configMap]

\* A call of Grant or Revoke in which the API call named by fault fails.  The
\* history keeps the outcome of the call before it when that call was the same
\* request; last is NoCall while the handler runs.
Invoke(c, op, builder, principal, role, ns, fault) ==
    /\ pc[c] = "idle"
    /\ calls < MaxCalls
    /\ LET r == Request(op, builder, principal, role, ns, fault)
       IN  /\ pc' = [pc EXCEPT ![c] = "mapUser"]
           /\ req' = [req EXCEPT ![c] =
                         IF SameRequest(r, last)
                         THEN [r EXCEPT !.prevOutcome = last.outcome,
                                        !.prevFault = last.fault,
                                        !.prevCm = last.preCm]
                         ELSE r]
    /\ last' = NoCall
    /\ UNCHANGED <<done, calls>>
    /\ KeepWorld

\* A call of Grant or Revoke whose API calls fail only by what the other
\* caller does.
Call(c, op, builder, principal, role, ns) ==
    /\ pc[c] = "idle"
    /\ done[c] < MaxRequests
    /\ Goto(c, "mapUser", Request(op, builder, principal, role, ns, "none"))
    /\ KeepWorld

\* GetMapUserFromAWSAuthConfigMap, first call of Grant and of Revoke.
GetMapUserStep(c) ==
    /\ pc[c] = "mapUser"
    /\ KeepWorld
    /\ LET iamUserMap == GetMapUserFromAWSAuthConfigMap(configMap, req[c].principal,
                                                        req[c].fault)
       IN  IF iamUserMap.err
           THEN ReturnError(c, "", "get aws-auth")
           ELSE IF iamUserMap.found
           THEN Goto(c, "list", [req[c] EXCEPT !.username = iamUserMap.username])
           ELSE IF req[c].op = "Grant"
                THEN Goto(c, "addGet", req[c])
                ELSE Return(c, "already_revoked", "")

\* AddIAMUserMapping, its read of the ConfigMap and the rows it builds from it.
AddIAMUserMappingGetStep(c) ==
    /\ pc[c] = "addGet"
    /\ KeepWorld
    /\ LET r == AddIAMUserMappingRows(configMap, req[c].principal)
       IN  IF r.err
           THEN ReturnError(c, "", IF configMap.state = "list" THEN "user already exists"
                                   ELSE "unmarshalling mapUsers")
           ELSE Goto(c, "addUpdate", [req[c] EXCEPT !.obj = [configMap EXCEPT !.rows = r.rows]])

\* AddIAMUserMapping, its Update of the ConfigMap it read.
AddIAMUserMappingUpdateStep(c) ==
    /\ pc[c] = "addUpdate"
    /\ LET u == ConfigMapUpdate(World, req[c].obj, req[c].fault)
       IN  IF u.err
           THEN ReturnError(c, "", "update aws-auth") /\ KeepWorld
           ELSE /\ Goto(c, "list", [req[c] EXCEPT !.username = req[c].principal,
                                                  !.obj = Idle.obj])
                /\ SetWorld(u.w, {})

\* The list of the matching bindings and the decision taken on it.
ListStep(c) ==
    /\ pc[c] = "list"
    /\ KeepWorld
    /\ IF req[c].fault = "list"
       THEN ReturnError(c, req[c].username, "list")
       ELSE \E matching \in Orderings(ProviderSet(bindings, req[c].builder,
                                                  req[c].role, req[c].ns)) :
          IF req[c].op = "Grant"
          THEN LET plan == bindingToUpdate(matching,
                               CanonicalName(req[c].builder, req[c].role, req[c].ns),
                               req[c].username)
               IN  IF plan.act = "exists"
                   THEN Return(c, "exists", req[c].username)
                   ELSE Goto(c, "write", [req[c] EXCEPT !.plan = plan])
          ELSE LET found == IF req[c].builder = "clusterRole" /\ req[c].ns = ClusterScope
                            THEN getExistingClusterRoleBindingForUser(matching,
                                                                      req[c].username)
                            ELSE getExistingBindingForUser(matching, req[c].username)
               IN  IF found = NoBinding
                   THEN Return(c, "already_revoked", req[c].username)
                   ELSE Goto(c, "write", [req[c] EXCEPT !.plan = [act |-> "revoke",
                                                                  binding |-> found]])

CreateFor(w, builder, role, ns, username, fault) ==
    IF builder = "role"
    THEN roleBuilder_createRoleBinding(w, ns, role, username, fault)
    ELSE IF ns = ClusterScope
         THEN createClusterRoleBinding(w, role, username, fault)
         ELSE clusterRoleBuilder_createRoleBinding(w, ns, role, username, fault)

\* The write of a Revoke is a delete (no subject is left) and the binding it
\* addresses, by the namespace of the request, does not exist.
DeleteFindsNothing(c) ==
    /\ req[c].op = "Revoke"
    /\ Len(filterSubjects(req[c].plan.binding.subjects, req[c].username)) = 0
    /\ FindBinding(bindings, req[c].plan.binding.kind,
                   IF req[c].plan.binding.kind = KindRB THEN req[c].ns ELSE ClusterScope,
                   req[c].plan.binding.name) = {}

\* The handler returns from its write.
ReturnFromWrite(c, outcome, target, failed, gone) ==
    /\ pc' = [pc EXCEPT ![c] = "idle"]
    /\ done' = [done EXCEPT ![c] = @ + 1]
    /\ req' = [req EXCEPT ![c] = [@ EXCEPT !.outcome = outcome, !.obj = Idle.obj,
                                           !.plan = NoPlan, !.failed = failed,
                                           !.gone = gone]]
    /\ Record(c, outcome, req[c].username, target)

\* The create, update or delete the handler decided on.
WriteStep(c) ==
    /\ pc[c] = "write"
    /\ LET r == IF req[c].op = "Grant"
                THEN ApplyGrantPlan(World, req[c].plan,
                                    CreateFor(World, req[c].builder, req[c].role,
                                              req[c].ns, req[c].username, req[c].fault),
                                    req[c].fault)
                ELSE RevokeFrom(World, req[c].plan.binding, req[c].username,
                                req[c].ns, req[c].fault)
       IN  /\ SetWorld(r.w, r.made)
           /\ ReturnFromWrite(c, r.outcome, r.target,
                              IF r.outcome = "error" THEN req[c].plan.act ELSE "none",
                              DeleteFindsNothing(c) /\ req[c].fault = "none")

BindInit ==
    /\ \E c \in InitClusters : configMap = c.cm /\ bindings = c.bindings
    /\ revision = 0
    /\ calls = 0
    /\ last = NoCall
    /\ created = {}

\* The groups of variables a specification does not move.
ConcParked == pc = "parked" /\ req = "parked" /\ done = "parked"

BindParked == calls = 0 /\ last = NoCall

CacheParked ==
    /\ cacheUsersMap = "parked" /\ cacheGroupsMap = "parked" /\ idCacheExpiry = 0
    /\ identityMutex = "parked" /\ now = 0 /\ cpc = "parked" /\ loc = "parked"
    /\ installed = "parked" /\ lastLoad = "parked" /\ got = "parked"

PolicyParked == accessEntries = "parked" /\ assoc = "parked" /\ plast = "parked"

FnParked == fn = "parked"

-----------------------------------------------------------------------------
(* Spec: one caller; its calls follow one another, and in each of them one  *)
(* API call may fail.                                                       *)

Init ==
    /\ BindInit
    /\ pc = [c \in {"c1"} |-> "idle"]
    /\ req = [c \in {"c1"} |-> Idle]
    /\ done = [c \in {"c1"} |-> 0]
    /\ CacheParked /\ PolicyParked /\ FnParked

Next ==
    \E c \in DOMAIN pc :
        \/ \E principal \in Principals, role \in RoleNames, ns \in Scopes, fault \in Faults :
              Invoke(c, "Grant", "clusterRole", principal, role, ns, fault)
        \/ \E principal \in Principals, role \in RoleNames, ns \in Scopes, fault \in Faults :
              Invoke(c, "Revoke", "clusterRole", principal, role, ns, fault)
        \/ \E principal \in Principals, role \in RoleNames, ns \in Namespaces, fault \in Faults :
              Invoke(c, "Grant", "role", principal, role, ns, fault)
        \/ \E principal \in Principals, role \in RoleNames, ns \in Namespaces, fault \in Faults :
              Invoke(c, "Revoke", "role", principal, role, ns, fault)
        \/ GetMapUserStep(c)
        \/ AddIAMUserMappingGetStep(c)
        \/ AddIAMUserMappingUpdateStep(c)
        \/ ListStep(c)
        \/ WriteStep(c)

Spec == Init /\ [][Next]_vars

-----------------------------------------------------------------------------
(* ConcSpec: two callers run Grant and Revoke against the same cluster.  The *)
(* API calls do not fail for outside reasons here: the conflicts are the     *)
(* ones the callers cause each other.                                        *)

ConcInit ==
    /\ BindInit
    /\ pc = [c \in Callers |-> "idle"]
    /\ req = [c \in Callers |-> Idle]
    /\ done = [c \in Callers |-> 0]

ConcNext ==
    \E c \in Callers :
        \/ \E principal \in Principals, role \in RoleNames, ns \in Scopes :
              Call(c, "Grant", "clusterRole", principal, role, ns)
        \/ \E principal \in Principals, role \in RoleNames, ns \in Scopes :
              Call(c, "Revoke", "clusterRole", principal, role, ns)
        \/ \E principal \in Principals, role \in RoleNames, ns \in Namespaces :
              Call(c, "Grant", "role", principal, role, ns)
        \/ \E principal \in Principals, role \in RoleNames, ns \in Namespaces :
              Call(c, "Revoke", "role", principal, role, ns)
        \/ GetMapUserStep(c)
        \/ AddIAMUserMappingGetStep(c)
        \/ AddIAMUserMappingUpdateStep(c)
        \/ ListStep(c)
        \/ WriteStep(c)

ConcSpecInit == ConcInit /\ CacheParked /\ PolicyParked /\ FnParked

ConcSpec == ConcSpecInit /\ [][ConcNext]_vars

-----------------------------------------------------------------------------
(* CacheSpec: the identity mapping cache of EKSClient.  Two callers run the  *)
(* lookups; a step is one statement group of LoadIdentityCacheMaps or the    *)
(* map read that follows it.  The clock counts minutes.                      *)

cacheTTL == 5
MaxNow == 6             \* the clock stops here

NoOne == "nobody"
ArnOps == "arn:aws:iam::111:role/ops"

\* map[string][]string: a function on the keys present; a missing key reads as
\* the nil slice, and ranging over a nil map visits nothing.
EmptyMap == [k \in {} |-> <<>>]
MapGet(m, k) == IF k \in DOMAIN m THEN m[k] ELSE <<>>

\* A variant that assigns: dst[k] = arns.
MergeInto_Assign(dst, src) ==
    [k \in DOMAIN dst \cup DOMAIN src |-> IF k \in DOMAIN src THEN src[k] ELSE dst[k]]

\* for k, arns := range src { dst[k] = append(dst[k], arns...) }
MergeInto(dst, src) ==
    [k \in DOMAIN dst \cup DOMAIN src |-> MapGet(dst, k) \o MapGet(src, k)]

\* A Go string as the sequence of its characters, for the strings the model
\* classifies.
Chars(s) ==
    CASE s = "arn:aws:iam::" ->
            <<"a", "r", "n", ":", "a", "w", "s", ":", "i", "a", "m", ":",
            ":">>
      [] s = ":user/" ->
            <<":", "u", "s", "e", "r", "/">>
      [] s = ":role/" ->
            <<":", "r", "o", "l", "e", "/">>
      [] s = "arn:aws:iam::111:user/alice" ->
            <<"a", "r", "n", ":", "a", "w", "s", ":", "i", "a", "m", ":", ":",
            "1", "1", "1", ":", "u", "s", "e", "r", "/", "a", "l", "i", "c",
            "e">>
      [] s = "arn:aws:iam::111:user/bob" ->
            <<"a", "r", "n", ":", "a", "w", "s", ":", "i", "a", "m", ":", ":",
            "1", "1", "1", ":", "u", "s", "e", "r", "/", "b", "o", "b">>
      [] s = "arn:aws:iam::111:role/ops" ->
            <<"a", "r", "n", ":", "a", "w", "s", ":", "i", "a", "m", ":", ":",
            "1", "1", "1", ":", "r", "o", "l", "e", "/", "o", "p", "s">>
      [] s = "already exists" ->
            <<"a", "l", "r", "e", "a", "d", "y", " ", "e", "x",
            "i", "s", "t", "s">>
      [] s = "resource is already in use" ->
            <<"r", "e", "s", "o", "u", "r", "c", "e", " ", "i",
            "s", " ", "a", "l", "r", "e", "a", "d", "y", " ", "i",
            "n", " ", "u", "s", "e">>
      [] s = "internal failure" ->
            <<"i", "n", "t", "e", "r", "n", "a", "l", " ", "f",
            "a", "i", "l", "u", "r", "e">>
      [] s = "not authorized" ->
            <<"n", "o", "t", " ", "a", "u", "t", "h", "o", "r",
            "i", "z", "e", "d">>
      [] s = "access entry already exists" ->
            <<"a", "c", "c", "e", "s", "s", " ", "e", "n", "t",
            "r", "y", " ", "a", "l", "r", "e", "a", "d", "y", " ",
            "e", "x", "i", "s", "t", "s">>
      [] s = "arn:aws:iam::111:root" ->
            <<"a", "r", "n", ":", "a", "w", "s", ":", "i", "a", "m", ":", ":",
            "1", "1", "1", ":", "r", "o", "o", "t">>
      [] s = "arn:aws:iam::111:group/devs" ->
            <<"a", "r", "n", ":", "a", "w", "s", ":", "i", "a", "m", ":", ":",
            "1", "1", "1", ":", "g", "r", "o", "u", "p", "/", "d", "e", "v",
            "s">>
      [] s = "arn:aws:iam::111:user" ->
            <<"a", "r", "n", ":", "a", "w", "s", ":", "i", "a", "m", ":", ":",
            "1", "1", "1", ":", "u", "s", "e", "r">>
      [] s = "arn:aws:sts::111:assumed-role/ops/s" ->
            <<"a", "r", "n", ":", "a", "w", "s", ":", "s", "t", "s", ":", ":",
            "1", "1", "1", ":", "a", "s", "s", "u", "m", "e", "d", "-", "r",
            "o", "l", "e", "/", "o", "p", "s", "/", "s">>
      [] s = "arn:aws:eks::111:role/ops" ->
            <<"a", "r", "n", ":", "a", "w", "s", ":", "e", "k", "s", ":", ":",
            "1", "1", "1", ":", "r", "o", "l", "e", "/", "o", "p", "s">>
      [] s = "arn:aws-cn:iam::111:user/li" ->
            <<"a", "r", "n", ":", "a", "w", "s", "-", "c", "n", ":", "i", "a",
            "m", ":", ":", "1", "1", "1", ":", "u", "s", "e", "r", "/", "l",
            "i">>
      [] s = "xarn:aws:iam::111:role/ops" ->
            <<"x", "a", "r", "n", ":", "a", "w", "s", ":", "i", "a", "m", ":",
            ":", "1", "1", "1", ":", "r", "o", "l", "e", "/", "o", "p", "s">>
      [] s = "arn:aws:iam:111:user/al" ->
            <<"a", "r", "n", ":", "a", "w", "s", ":", "i", "a", "m", ":", "1",
            "1", "1", ":", "u", "s", "e", "r", "/", "a", "l">>
      [] s = "arn:aws:iam:::user/" ->
            <<"a", "r", "n", ":", "a", "w", "s", ":", "i", "a", "m", ":", ":",
            ":", "u", "s", "e", "r", "/">>
      [] s = "arn:aws:iam::111:oidc-provider/x:role/y" ->
            <<"a", "r", "n", ":", "a", "w", "s", ":", "i", "a", "m", ":", ":",
            "1", "1", "1", ":", "o", "i", "d", "c", "-", "p", "r", "o", "v",
            "i", "d", "e", "r", "/", "x", ":", "r", "o", "l", "e", "/", "y">>
      [] s = ":user/arn:aws:iam::" ->
            <<":", "u", "s", "e", "r", "/", "a", "r", "n", ":", "a", "w", "s",
            ":", "i", "a", "m", ":", ":">>
      [] s = "ARN:AWS:IAM::111:USER/AL" ->
            <<"A", "R", "N", ":", "A", "W", "S", ":", "I", "A", "M", ":", ":",
            "1", "1", "1", ":", "U", "S", "E", "R", "/", "A", "L">>
      [] s = "alice" ->
            <<"a", "l", "i", "c", "e">>
      [] s = "" ->
            <<>>

\* strings.HasPrefix and strings.Contains.
HasPrefix(s, prefix) ==
    Len(s) >= Len(prefix) /\ SubSeq(s, 1, Len(prefix)) = prefix

StringsContains(s, substr) ==
    \E i \in 1..(Len(s) - Len(substr) + 1) : SubSeq(s, i, i + Len(substr) - 1) = substr

\* A variant that does not look at the prefix.
isUserOrRoleArn_AnyService(arn) ==
    \/ StringsContains(Chars(arn), Chars(":user/"))
    \/ StringsContains(Chars(arn), Chars(":role/"))

isUserOrRoleArn(arn) ==
    IF ~HasPrefix(Chars(arn), Chars("arn:aws:iam::"))
    THEN FALSE
    ELSE \/ StringsContains(Chars(arn), Chars(":user/"))
         \/ StringsContains(Chars(arn), Chars(":role/"))

\* m[k] = append(m[k], v)
MapAppend(m, k, v) ==
    [x \in DOMAIN m \cup {k} |-> IF x = k THEN Append(MapGet(m, k), v) ELSE m[x]]

\* for _, group := range groups { groupMap[group] = append(groupMap[group], arn) }
RECURSIVE AppendToGroups(_, _, _)
AppendToGroups(groupMap, groups, arn) ==
    IF Len(groups) = 0 THEN groupMap
    ELSE AppendToGroups(MapAppend(groupMap, Head(groups), arn), Tail(groups), arn)

\* A row of mapUsers or mapRoles as the reader sees it; username "" and groups
\* <<>> stand for the absent fields too (omitempty).
MapRow(arn, username, groups) == [arn |-> arn, username |-> username, groups |-> groups]

\* userMap, groupMap := make(map[string][]string), make(map[string][]string)
MakeMaps(users, groups) == [users |-> users, groups |-> groups]

\* The username a row is recorded under, and whether it is recorded at all.
\* A variant that records a row without username under its ARN.
RowUsername_SelfMapped(row) ==
    [record |-> TRUE, key |-> IF row.username # "" THEN row.username ELSE row.arn]

RowUsername(row) == [record |-> row.username # "", key |-> row.username]

\* The loop over the rows of mapUsers / mapRoles.
RECURSIVE AwsAuthRows(_, _)
AwsAuthRows(rows, m) ==
    IF Len(rows) = 0 THEN m
    ELSE LET u == Head(rows)
             name == RowUsername(u)
         IN  AwsAuthRows(Tail(rows),
                 [users |-> IF name.record THEN MapAppend(m.users, name.key, u.arn)
                            ELSE m.users,
                  groups |-> AppendToGroups(m.groups, u.groups, u.arn)])

\* Data[key] of the ConfigMap: "absent" (no key, or blank), "invalid" (Unmarshal
\* fails) or a "list" of rows.
YamlList(state, rows) == [state |-> state, rows |-> rows]

AwsAuthSource(reachable, mapUsers, mapRoles) ==
    [reachable |-> reachable, mapUsers |-> mapUsers, mapRoles |-> mapRoles]

\* One row of the text of a list; decodes: the row fits the mapUser (mapRole)
\* struct, row: the fields of the row when it does.
YamlRow(decodes, row) == [decodes |-> decodes, row |-> row]

\* yaml.Unmarshal([]byte(usersYaml), &users): one error for the whole text when
\* a row does not decode, and the slice is read only under err == nil.
yamlUnmarshal(text) ==
    IF \A i \in DOMAIN text : text[i].decodes
    THEN YamlList("list", [i \in DOMAIN text |-> text[i].row])
    ELSE YamlList("invalid", <<>>)

\* Both readers return nil maps with their error.
getAwsAuthMappings(src) ==
    IF ~src.reachable
    THEN [err |-> TRUE, users |-> EmptyMap, groups |-> EmptyMap]
    ELSE LET users == IF src.mapUsers.state = "list"
                      THEN AwsAuthRows(src.mapUsers.rows, MakeMaps(EmptyMap, EmptyMap))
                      ELSE MakeMaps(EmptyMap, EmptyMap)
             roles == IF src.mapRoles.state = "list"
                      THEN AwsAuthRows(src.mapRoles.rows, users) ELSE users
         IN  [err |-> FALSE, users |-> roles.users, groups |-> roles.groups]

\* An access entry: its principal ARN in the list, the answer of
\* DescribeAccessEntry ("ok", "error", or "nil" for no AccessEntry in the
\* result), its type ("nil" for none), username ("" for nil too) and groups.
AccessEntry(arn, describe, type, username, groups) ==
    [arn |-> arn, describe |-> describe, type |-> type, username |-> username,
     groups |-> groups]

\* The loop over the access entries.
RECURSIVE AccessEntryRows(_, _)
AccessEntryRows(entries, m) ==
    IF Len(entries) = 0 THEN m
    ELSE LET e == Head(entries)
         IN  AccessEntryRows(Tail(entries),
                 IF ~isUserOrRoleArn(e.arn) THEN m
                 ELSE IF e.describe # "ok" THEN m
                 ELSE IF e.type # "STANDARD" THEN m
                 ELSE [users |-> MapAppend(m.users,
                                           IF e.username # "" THEN e.username ELSE e.arn,
                                           e.arn),
                       groups |-> AppendToGroups(m.groups, e.groups, e.arn)])

getAccessEntriesMappings(src) ==
    IF ~src.reachable
    THEN [err |-> TRUE, users |-> EmptyMap, groups |-> EmptyMap]
    ELSE LET m == AccessEntryRows(src.entries, MakeMaps(EmptyMap, EmptyMap))
         IN  [err |-> FALSE, users |-> m.users, groups |-> m.groups]

\* What the two sources hold in CacheSpec, and whether the read (ConfigMap Get,
\* ListAccessEntries) goes through.
AwsAuthContents == { <<MapRow(ArnAlice, "alice", <<"devs">>)>> }
AccessEntriesContents ==
    { <<AccessEntry(ArnOps, "ok", "STANDARD", "alice", <<>>),
        AccessEntry(ArnAlice, "ok", "STANDARD", "", <<"devs", "ops">>)>> }
AwsAuthSources ==
    {AwsAuthSource(r, YamlList("list", rows), YamlList("absent", <<>>)) :
        r \in BOOLEAN, rows \in AwsAuthContents}
AccessEntriesSources ==
    {[reachable |-> r, entries |-> e] : r \in BOOLEAN, e \in AccessEntriesContents}

\* identityMutex.Lock() goes through when nobody holds the mutex.
\* A variant without the mutex.
MutexFree_NoMutex(holder) == TRUE

MutexFree(holder) == holder = NoOne

\* The staleness check.  The maps are never nil: the constructors make them and
\* a refresh installs made maps.
CacheValid(t, expiry) == t < expiry

\* Both sources failed: the refresh returns its error.
\* A variant that gives up when either source failed.
RefreshFails_Either(awsAuthAccessible, entriesErr) == entriesErr \/ ~awsAuthAccessible

\* A variant that never gives up: the refresh installs what it has.
RefreshFails_Never(awsAuthAccessible, entriesErr) == FALSE

RefreshFails(awsAuthAccessible, entriesErr) == entriesErr /\ ~awsAuthAccessible

NoResult == [err |-> FALSE, users |-> EmptyMap, groups |-> EmptyMap]

IdleLoc == [by |-> "none", key |-> "", t |-> 0, userMap |-> EmptyMap, groupMap |-> EmptyMap,
            awsAuthAccessible |-> TRUE, aws |-> NoResult, contended |-> FALSE,
            refreshed |-> FALSE, inTTL |-> FALSE, before |-> [users |-> EmptyMap, groups |-> EmptyMap]]

\* The last refresh: the maps before its clear and after its return, and what
\* the two readers returned.
NoLoad == [kind |-> "none",
           before |-> [users |-> EmptyMap, groups |-> EmptyMap],
           after |-> [users |-> EmptyMap, groups |-> EmptyMap],
           aws |-> NoResult, ent |-> NoResult]

\* The last lookup that returned: the entry it read and the entry of the
\* snapshot installed last; inTTL: the lookup was called less than cacheTTL
\* after a refresh had returned with success; refreshed: its
\* LoadIdentityCacheMaps read the sources.
NoGot == [kind |-> "none", value |-> <<>>, expect |-> <<>>, inTTL |-> FALSE,
          refreshed |-> FALSE]

RefreshBody == {"clear", "awsAuth", "entries", "install"}

CacheInit ==
    /\ cacheUsersMap = EmptyMap
    /\ cacheGroupsMap = EmptyMap
    /\ idCacheExpiry = 0                    \* the zero time
    /\ identityMutex = NoOne
    /\ now = 0
    /\ cpc = [c \in Callers |-> "idle"]
    /\ loc = [c \in Callers |-> IdleLoc]
    /\ installed = [users |-> EmptyMap, groups |-> EmptyMap, t |-> -1, prevT |-> -1,
                    done |-> -1]
    /\ lastLoad = NoLoad
    /\ got = NoGot

\* A refresh has succeeded (installed.done is the time of its return; installed.t
\* is the time it took at its start) and less than cacheTTL has passed since.
WithinTTL == installed.done >= 0 /\ now < installed.done + cacheTTL

CacheFrame == UNCHANGED <<bindVars, concVars, policyVars, fnVars>>

\* A lookup is called.  contended: another caller is inside the refresh body;
\* inTTL: the call is made within cacheTTL of the last successful refresh.
LookupCall(c, by, key) ==
    /\ cpc[c] = "idle"
    /\ cpc' = [cpc EXCEPT ![c] = "lock"]
    /\ loc' = [loc EXCEPT ![c] = [IdleLoc EXCEPT !.by = by, !.key = key,
                  !.contended = \E d \in Callers \ {c} : cpc[d] \in RefreshBody,
                  !.inTTL = WithinTTL]]
    /\ UNCHANGED <<cacheUsersMap, cacheGroupsMap, idCacheExpiry, identityMutex, now,
                   installed, lastLoad, got>>
    /\ CacheFrame

LookupArnsByUsername(c, username) == LookupCall(c, "user", username)

LookupArnsByGroup(c, group) == LookupCall(c, "group", group)

\* Lock, now := time.Now(), and the staleness check; a valid cache returns nil
\* (and unlocks).
LockAndCheck(c) ==
    /\ cpc[c] = "lock"
    /\ MutexFree(identityMutex)
    /\ IF CacheValid(now, idCacheExpiry)
       THEN /\ cpc' = [cpc EXCEPT ![c] = "read"]
            /\ identityMutex' = NoOne
       ELSE /\ cpc' = [cpc EXCEPT ![c] = "clear"]
            /\ identityMutex' = c
    /\ loc' = [loc EXCEPT ![c].t = now]
    /\ UNCHANGED <<cacheUsersMap, cacheGroupsMap, idCacheExpiry, now, installed,
                   lastLoad, got>>
    /\ CacheFrame

\* clear(c.cacheUsersMap); clear(c.cacheGroupsMap); and the two local maps made.
ClearStep(c) ==
    /\ cpc[c] = "clear"
    /\ cacheUsersMap' = EmptyMap
    /\ cacheGroupsMap' = EmptyMap
    /\ cpc' = [cpc EXCEPT ![c] = "awsAuth"]
    /\ loc' = [loc EXCEPT ![c].before = [users |-> cacheUsersMap, groups |-> cacheGroupsMap],
                          ![c].userMap = EmptyMap, ![c].groupMap = EmptyMap,
                          ![c].refreshed = TRUE]
    /\ UNCHANGED <<idCacheExpiry, identityMutex, now, installed, lastLoad, got>>
    /\ CacheFrame

\* getAwsAuthMappings and the merge of its maps.
AwsAuthStep(c) ==
    /\ cpc[c] = "awsAuth"
    /\ \E src \in AwsAuthSources :
          LET r == getAwsAuthMappings(src)
          IN  loc' = [loc EXCEPT ![c].awsAuthAccessible = ~r.err,
                                 ![c].aws = r,
                                 ![c].userMap = MergeInto(@, r.users),
                                 ![c].groupMap = MergeInto(@, r.groups)]
    /\ cpc' = [cpc EXCEPT ![c] = "entries"]
    /\ UNCHANGED <<cacheUsersMap, cacheGroupsMap, idCacheExpiry, identityMutex, now,
                   installed, lastLoad, got>>
    /\ CacheFrame

LoadRecord(c, kind, ent, after) ==
    [kind |-> kind, before |-> loc[c].before, after |-> after,
     aws |-> loc[c].aws, ent |-> ent]

\* getAccessEntriesMappings; the error return when both sources failed (the
\* lookup returns the error too), else the merge.
AccessEntriesStep(c) ==
    /\ cpc[c] = "entries"
    /\ \E src \in AccessEntriesSources :
          LET r == getAccessEntriesMappings(src)
          IN  IF RefreshFails(loc[c].awsAuthAccessible, r.err)
              THEN /\ cpc' = [cpc EXCEPT ![c] = "idle"]
                   /\ identityMutex' = NoOne
                   /\ lastLoad' = LoadRecord(c, "failed", r,
                                     [users |-> cacheUsersMap, groups |-> cacheGroupsMap])
                   /\ got' = [NoGot EXCEPT !.kind = "error", !.refreshed = TRUE,
                                           !.inTTL = loc[c].inTTL]
                   /\ loc' = [loc EXCEPT ![c] = IdleLoc]
              ELSE /\ cpc' = [cpc EXCEPT ![c] = "install"]
                   /\ loc' = [loc EXCEPT ![c].userMap = MergeInto(@, r.users),
                                         ![c].groupMap = MergeInto(@, r.groups),
                                         ![c].before = @]
                   /\ lastLoad' = LoadRecord(c, "merging", r,
                                     [users |-> cacheUsersMap, groups |-> cacheGroupsMap])
                   /\ UNCHANGED <<identityMutex, got>>
    /\ UNCHANGED <<cacheUsersMap, cacheGroupsMap, idCacheExpiry, now, installed>>
    /\ CacheFrame

\* The three assignments that install the snapshot, and the return (unlock).
InstallStep(c) ==
    /\ cpc[c] = "install"
    /\ cacheUsersMap' = loc[c].userMap
    /\ cacheGroupsMap' = loc[c].groupMap
    /\ idCacheExpiry' = loc[c].t + cacheTTL
    /\ identityMutex' = NoOne
    /\ cpc' = [cpc EXCEPT ![c] = "read"]
    /\ installed' = [users |-> loc[c].userMap, groups |-> loc[c].groupMap,
                     t |-> loc[c].t, prevT |-> installed.t, done |-> now]
    /\ lastLoad' = [lastLoad EXCEPT !.kind = "refreshed",
                       !.after = [users |-> loc[c].userMap, groups |-> loc[c].groupMap]]
    /\ UNCHANGED <<now, loc, got>>
    /\ CacheFrame

\* return c.cacheUsersMap[username] / c.cacheGroupsMap[group], outside the mutex.
ReadStep(c) ==
    /\ cpc[c] = "read"
    /\ LET m == IF loc[c].by = "user" THEN cacheUsersMap ELSE cacheGroupsMap
           snap == IF loc[c].by = "user" THEN installed.users ELSE installed.groups
       IN  got' = [kind |-> "value", value |-> MapGet(m, loc[c].key),
                   expect |-> MapGet(snap, loc[c].key),
                   inTTL |-> loc[c].inTTL,
                   refreshed |-> loc[c].refreshed]
    /\ cpc' = [cpc EXCEPT ![c] = "idle"]
    /\ loc' = [loc EXCEPT ![c] = IdleLoc]
    /\ UNCHANGED <<cacheUsersMap, cacheGroupsMap, idCacheExpiry, identityMutex, now,
                   installed, lastLoad>>
    /\ CacheFrame

\* The map read at the same time as another caller's clear of that map is a
\* data race.  It yields the old entry or none (ReadStep before or after
\* ClearStep), or the runtime stops the process: concurrent map read and map
\* write.
RaceStep(c) ==
    /\ cpc[c] = "read"
    /\ \E d \in Callers \ {c} : cpc[d] = "clear"
    /\ cpc' = [d \in Callers |-> "fatal"]
    /\ got' = [NoGot EXCEPT !.kind = "fatal", !.inTTL = loc[c].inTTL]
    /\ UNCHANGED <<cacheUsersMap, cacheGroupsMap, idCacheExpiry, identityMutex, now,
                   loc, installed, lastLoad>>
    /\ CacheFrame

Tick ==
    /\ now < MaxNow
    /\ \A c \in Callers : cpc[c] # "fatal"
    /\ now' = now + 1
    /\ UNCHANGED <<cacheUsersMap, cacheGroupsMap, idCacheExpiry, identityMutex,
                   cpc, loc, installed, lastLoad, got>>
    /\ CacheFrame

CacheNext ==
    \/ Tick
    \/ \E c \in Callers :
          \/ LookupArnsByUsername(c, "alice")
          \/ LookupArnsByGroup(c, "devs")
          \/ LockAndCheck(c)
          \/ ClearStep(c)
          \/ AwsAuthStep(c)
          \/ AccessEntriesStep(c)
          \/ InstallStep(c)
          \/ ReadStep(c)
          \/ RaceStep(c)

CacheSpecInit ==
    /\ CacheInit
    /\ configMap = ConfigMapOf("absent", <<>>) /\ bindings = {} /\ revision = 0
    /\ created = {} /\ BindParked /\ ConcParked /\ PolicyParked /\ FnParked

CacheSpec == CacheSpecInit /\ [][CacheNext]_vars

-----------------------------------------------------------------------------
(* PolicySpec: access-policy Grant and Revoke (accessPolicyBuilder) against  *)
(* the access entries and policy associations of the cluster.  One caller;   *)
(* a step is one API call of the handler and the code up to the next one,    *)
(* and in each invocation one API call may fail.                             *)

PolicyView  == <<"arn", "aws", "eks", "", "aws", "cluster-access-policy/AmazonEKSViewPolicy">>
PolicyAdmin == <<"arn", "aws", "eks", "", "aws", "cluster-access-policy/AmazonEKSAdminPolicy">>
PolicyArns == {PolicyView, PolicyAdmin}

\* The principals of the access-policy handlers.
PolicyPrincipals == {ArnAlice}

\* An entitlement ID is a string of ":"-separated parts; it is kept as the
\* sequence of its parts.  NewAssignmentEntitlement joins the resource type, the
\* resource ID (the policy ARN) and the slug Entitlements passes.
EntitlementID(policyARN, slug) == <<"access_policy">> \o policyARN \o slug

AssignedSlug(scope) == <<"assigned", scope>>

\* The IDs a handler is called with: the ones Entitlements emits for the
\* cluster and the namespaces, and an ID without a scope part.
EntitlementIDs(policyARN) ==
    {EntitlementID(policyARN, AssignedSlug(x)) : x \in {"cluster"} \cup Namespaces}
        \cup {<<"access_policy">> \o policyARN}

RECURSIVE JoinColon(_)
JoinColon(parts) ==
    IF Len(parts) = 0 THEN ""
    ELSE IF Len(parts) = 1 THEN parts[1]
    ELSE parts[1] \o ":" \o JoinColon(Tail(parts))

ClusterAccess == [type |-> "cluster", namespaces |-> <<>>]
NamespaceAccess(l) == [type |-> "namespace", namespaces |-> l]
NoScope == [type |-> "none", namespaces |-> <<>>]       \* a nil *AccessScope

\* strings.Index(entitlementName, ":assigned:"): the first part "assigned" with a
\* part before it and a part after it; 0 when there is none.
AssignedIndex(entitlementName) ==
    LET hits == {i \in 2..(Len(entitlementName) - 1) : entitlementName[i] = "assigned"}
    IN  IF hits = {} THEN 0 ELSE MinOf(hits)

\* A variant without the comparison with "cluster".
parseEntitlementScope_NamespaceOnly(entitlementName) ==
    LET assignedIndex == AssignedIndex(entitlementName)
        scopeValue == JoinColon(SubSeq(entitlementName, assignedIndex + 1,
                                       Len(entitlementName)))
    IN  IF assignedIndex = 0 THEN ClusterAccess
        ELSE NamespaceAccess(<<scopeValue>>)

parseEntitlementScope(entitlementName) ==
    LET assignedIndex == AssignedIndex(entitlementName)
        scopeValue == JoinColon(SubSeq(entitlementName, assignedIndex + 1,
                                       Len(entitlementName)))
    IN  IF assignedIndex = 0 THEN ClusterAccess
        ELSE IF scopeValue = "cluster" THEN ClusterAccess
        ELSE NamespaceAccess(<<scopeValue>>)

\* The API call of a handler that fails, if any.
PolicyFaults == {"none", "entry", "entryClient", "entryText", "list", "associate", "disassociate"}

\* The EKS API.  a is [entries, assoc].  CreateAccessEntry answers "already
\* exists" (ResourceInUseException) for a principal that has an entry.
\* An error of the API is its exception type and its message.  The failures
\* of CreateAccessEntry: a server error ("entry"), a ClientException that is
\* not about an existing entry ("entryClient": the caller is not authorized),
\* and an error of another type whose text says the entry exists ("entryText").
ApiError(type, message) == [err |-> TRUE, type |-> type, message |-> message]

CreateAccessEntry(a, principalARN, fault) ==
    IF fault = "entry"
    THEN ApiError("ServerException", "internal failure") @@ [a |-> a]
    ELSE IF fault = "entryClient"
    THEN ApiError("ClientException", "not authorized") @@ [a |-> a]
    ELSE IF fault = "entryText"
    THEN ApiError("InvalidRequestException", "access entry already exists") @@ [a |-> a]
    ELSE IF principalARN \in a.entries
    THEN ApiError("ResourceInUseException", "resource is already in use") @@ [a |-> a]
    ELSE [err |-> FALSE, type |-> "", message |-> "",
          a |-> [a EXCEPT !.entries = @ \cup {principalARN}]]

\* strings.Contains(err.Error(), "already exists") || errors.As(err,
\* &resourceInUseErr) || errors.As(err, &conflictErr)
isAccessEntryAlreadyExistsError(e) ==
    \/ StringsContains(Chars(e.message), Chars("already exists"))
    \/ e.type = "ResourceInUseException"
    \/ e.type = "ClientException"

\* The associated policies of the principal, each with its scope.
GetAssociatedAccessPolicies(a, principalARN, fault) ==
    IF fault = "list" THEN [err |-> TRUE, policies |-> {}]
    ELSE [err |-> FALSE,
          policies |-> {[policyArn |-> pol, accessScope |-> a.assoc[<<principalARN, pol>>]] :
                           pol \in {q \in PolicyArns : a.assoc[<<principalARN, q>>] # NoScope}}]

AssociateAccessPolicy(a, principalARN, policyARN, accessScope, fault) ==
    IF fault = "associate" THEN [err |-> TRUE, a |-> a]
    ELSE [err |-> FALSE, a |-> [a EXCEPT !.assoc[<<principalARN, policyARN>>] = accessScope]]

DisassociateAccessPolicy(a, principalARN, policyARN, fault) ==
    IF fault = "disassociate" THEN [err |-> TRUE, a |-> a]
    ELSE [err |-> FALSE, a |-> [a EXCEPT !.assoc[<<principalARN, policyARN>>] = NoScope]]

getPolicyScope(a, principalARN, policyARN, fault) ==
    LET l == GetAssociatedAccessPolicies(a, principalARN, fault)
        hits == {x \in l.policies : x.policyArn = policyARN}
    IN  IF l.err THEN [err |-> TRUE, scope |-> NoScope]
        ELSE IF hits = {} THEN [err |-> FALSE, scope |-> NoScope]
        ELSE [err |-> FALSE, scope |-> (CHOOSE x \in hits : TRUE).accessScope]

Contains(l, x) == \E i \in DOMAIN l : l[i] = x

\* Grant refuses a namespace scope when the policy is associated cluster-wide.
\* A variant that lets it through.
ClusterScopeConflict_Ignored(policyScope) == FALSE

ClusterScopeConflict(policyScope) == policyScope.type = "cluster"

\* accessScope.Namespaces = append(accessScope.Namespaces, policyScope.Namespaces...)
\* A variant that keeps the requested namespace alone.
MergeNamespaces_Replace(requested, existing) == requested

\* A variant that appends the association's namespaces to a list that holds
\* the requested one twice.
MergeNamespaces_Twice(requested, existing) == requested \o requested \o existing

MergeNamespaces(requested, existing) == requested \o existing

\* Revoke's filter: the namespaces of the association other than the revoked one.
\* A variant that filters nothing.
RemainingNamespaces_KeepAll(existing, namespace) == existing

RemainingNamespaces(existing, namespace) ==
    SelectSeq(existing, LAMBDA n : n # namespace)

\* Revoke refuses a namespace scope when the policy is associated cluster-wide.
\* A variant that lets it through.
RevokeClusterScopeConflict_Ignored(policyScope) == FALSE

RevokeClusterScopeConflict(policyScope) == policyScope.type = "cluster"

\* What Grant does with the scope it read, for a namespace entitlement: the
\* error of the cluster-scope conflict, GrantAlreadyExists, or the scope to
\* associate (the namespace asked for, followed by the namespaces read).
GrantDecision(accessScope, policyScope) ==
    IF policyScope = NoScope THEN [act |-> "associate", scope |-> accessScope]
    ELSE IF ClusterScopeConflict(policyScope) THEN [act |-> "error", scope |-> NoScope]
    ELSE IF policyScope.type = "namespace"
            /\ Contains(policyScope.namespaces, accessScope.namespaces[1])
         THEN [act |-> "exists", scope |-> NoScope]
    ELSE [act |-> "associate",
          scope |-> IF policyScope.type = "namespace"
                    THEN NamespaceAccess(MergeNamespaces(accessScope.namespaces,
                                                         policyScope.namespaces))
                    ELSE accessScope]

\* What Revoke does with the scope it read, for a namespace entitlement:
\* GrantAlreadyRevoked, the error of the cluster-scope conflict, the scope of
\* the remaining namespaces to associate, or the disassociation.
RevokeDecision(accessScope, policyScope) ==
    IF policyScope = NoScope THEN [act |-> "already_revoked", scope |-> NoScope]
    ELSE IF RevokeClusterScopeConflict(policyScope) THEN [act |-> "error", scope |-> NoScope]
    ELSE IF ~Contains(policyScope.namespaces, accessScope.namespaces[1])
         THEN [act |-> "already_revoked", scope |-> NoScope]
    ELSE IF Len(policyScope.namespaces) > 1
         THEN [act |-> "associate",
               scope |-> NamespaceAccess(RemainingNamespaces(policyScope.namespaces,
                                                             accessScope.namespaces[1]))]
    ELSE [act |-> "disassociate", scope |-> NoScope]

NoPolicyCall ==
    [op |-> "none", principal |-> "", policy |-> <<>>, id |-> <<>>, fault |-> "none",
     outcome |-> "none", apiCalls |-> <<>>, pre |-> <<>>, preEntries |-> {}]

\* The request a caller has in progress and the locals of its handler:
\* accessScope is the scope parsed from the entitlement and then the scope to
\* associate; apiCalls, pre and preEntries are history (the calls made so far,
\* the associations and the access entries at the call).
PolicyIdle ==
    [op |-> "none", principal |-> "", policy |-> <<>>, id |-> <<>>, fault |-> "none",
     accessScope |-> NoScope, outcome |-> "none", apiCalls |-> <<>>,
     pre |-> <<>>, preEntries |-> {}]

Aws == [entries |-> accessEntries, assoc |-> assoc]

PolicyInit ==
    /\ accessEntries = {}
    /\ assoc = [x \in PolicyPrincipals \X PolicyArns |-> NoScope]
    /\ plast = NoPolicyCall

\* Every step either keeps the entries and associations or sets them.
PolicyKeep == UNCHANGED <<accessEntries, assoc, bindVars, cacheVars, fnVars>>

PolicySet(a) ==
    /\ accessEntries' = a.entries
    /\ assoc' = a.assoc
    /\ UNCHANGED <<bindVars, cacheVars, fnVars>>

PolicyGoto(c, label, r) ==
    /\ pc' = [pc EXCEPT ![c] = label]
    /\ req' = [req EXCEPT ![c] = r]
    /\ UNCHANGED <<done, plast>>

\* The handler returns; plast is the invocation that returned.
PolicyReturn(c, outcome, apiCalls) ==
    /\ pc' = [pc EXCEPT ![c] = "idle"]
    /\ req' = [req EXCEPT ![c] = [@ EXCEPT !.outcome = outcome, !.apiCalls = apiCalls]]
    /\ plast' = [op |-> req[c].op, principal |-> req[c].principal,
                 policy |-> req[c].policy, id |-> req[c].id, fault |-> req[c].fault,
                 outcome |-> outcome, apiCalls |-> apiCalls,
                 pre |-> req[c].pre, preEntries |-> req[c].preEntries]
    /\ UNCHANGED done

\* The request of a call, with the scope parsed from the entitlement.
PolicyRequest(op, principalARN, policyARN, entitlementID, fault) ==
    [PolicyIdle EXCEPT !.op = op, !.principal = principalARN, !.policy = policyARN,
                       !.id = entitlementID, !.fault = fault,
                       !.accessScope = parseEntitlementScope(entitlementID),
                       !.pre = assoc, !.preEntries = accessEntries]

\* The first API call of the handler: Grant creates the access entry; Revoke
\* reads the scope for a namespace entitlement and disassociates otherwise.
FirstCall(r) ==
    IF r.op = "Grant" THEN "entry"
    ELSE IF r.accessScope.type = "namespace" THEN "scope"
    ELSE "disassociate"

\* A call of Grant or Revoke in which the API call named by fault fails;
\* plast is NoPolicyCall while the handler runs.
AccessPolicyInvoke(c, op, principalARN, policyARN, entitlementID, fault) ==
    /\ pc[c] = "idle"
    /\ LET r == PolicyRequest(op, principalARN, policyARN, entitlementID, fault)
       IN  /\ pc' = [pc EXCEPT ![c] = FirstCall(r)]
           /\ req' = [req EXCEPT ![c] = r]
    /\ plast' = NoPolicyCall
    /\ UNCHANGED done
    /\ PolicyKeep

\* A call of Grant or Revoke by one of two callers, without API failure.
AccessPolicyCall(c, op, principalARN, policyARN, entitlementID) ==
    /\ pc[c] = "idle"
    /\ done[c] < MaxRequests
    /\ LET r == PolicyRequest(op, principalARN, policyARN, entitlementID, "none")
       IN  /\ pc' = [pc EXCEPT ![c] = FirstCall(r)]
           /\ req' = [req EXCEPT ![c] = r]
    /\ done' = [done EXCEPT ![c] = @ + 1]
    /\ UNCHANGED plast
    /\ PolicyKeep

\* Grant: CreateAccessEntry; an error that is not taken for "already exists"
\* is returned.
CreateAccessEntryStep(c) ==
    /\ pc[c] = "entry"
    /\ LET e == CreateAccessEntry(Aws, req[c].principal, req[c].fault)
           apiCalls == Append(req[c].apiCalls, "CreateAccessEntry")
       IN  IF e.err /\ ~isAccessEntryAlreadyExistsError(e)
           THEN PolicyReturn(c, "error", apiCalls) /\ PolicyKeep
           ELSE /\ PolicySet(e.a)
                /\ PolicyGoto(c, IF req[c].accessScope.type = "namespace"
                                 THEN "scope" ELSE "associate",
                              [req[c] EXCEPT !.apiCalls = apiCalls])

\* getPolicyScope (the list of the associated policies of the principal) and
\* the decision taken on the scope it returns.
GetPolicyScopeStep(c) ==
    /\ pc[c] = "scope"
    /\ PolicyKeep
    /\ LET p == getPolicyScope(Aws, req[c].principal, req[c].policy, req[c].fault)
           apiCalls == Append(req[c].apiCalls, "ListAssociatedAccessPolicies")
           d == IF req[c].op = "Grant" THEN GrantDecision(req[c].accessScope, p.scope)
                ELSE RevokeDecision(req[c].accessScope, p.scope)
       IN  IF p.err THEN PolicyReturn(c, "error", apiCalls)
           ELSE IF d.act \in {"error", "exists", "already_revoked"}
                THEN PolicyReturn(c, d.act, apiCalls)
           ELSE PolicyGoto(c, d.act, [req[c] EXCEPT !.accessScope = d.scope,
                                                    !.apiCalls = apiCalls])

\* AssociateAccessPolicy with the scope decided on: the last call of Grant, and
\* of a Revoke that leaves namespaces.
AssociateStep(c) ==
    /\ pc[c] = "associate"
    /\ LET r == AssociateAccessPolicy(Aws, req[c].principal, req[c].policy,
                                      req[c].accessScope, req[c].fault)
       IN  /\ PolicySet(r.a)
           /\ PolicyReturn(c, Outcome(r, IF req[c].op = "Grant" THEN "applied"
                                         ELSE "revoked"),
                           Append(req[c].apiCalls, "AssociateAccessPolicy"))

\* DisassociateAccessPolicy: the last call of the other Revokes.
DisassociateStep(c) ==
    /\ pc[c] = "disassociate"
    /\ LET r == DisassociateAccessPolicy(Aws, req[c].principal, req[c].policy,
                                         req[c].fault)
       IN  /\ PolicySet(r.a)
           /\ PolicyReturn(c, Outcome(r, "revoked"),
                           Append(req[c].apiCalls, "DisassociateAccessPolicy"))

PolicyNext ==
    \E c \in DOMAIN pc :
        \/ \E principalARN \in PolicyPrincipals, policyARN \in PolicyArns,
              fault \in PolicyFaults :
              \E entitlementID \in EntitlementIDs(policyARN) :
                  AccessPolicyInvoke(c, "Grant", principalARN, policyARN,
                                     entitlementID, fault)
        \/ \E principalARN \in PolicyPrincipals, policyARN \in PolicyArns,
              fault \in PolicyFaults :
              \E entitlementID \in EntitlementIDs(policyARN) :
                  AccessPolicyInvoke(c, "Revoke", principalARN, policyARN,
                                     entitlementID, fault)
        \/ CreateAccessEntryStep(c)
        \/ GetPolicyScopeStep(c)
        \/ AssociateStep(c)
        \/ DisassociateStep(c)

PolicySpecInit ==
    /\ PolicyInit
    /\ pc = [c \in {"c1"} |-> "idle"]
    /\ req = [c \in {"c1"} |-> PolicyIdle]
    /\ done = [c \in {"c1"} |-> 0]
    /\ configMap = ConfigMapOf("absent", <<>>) /\ bindings = {} /\ revision = 0
    /\ created = {} /\ BindParked /\ CacheParked /\ FnParked

PolicySpec == PolicySpecInit /\ [][PolicyNext]_vars

-----------------------------------------------------------------------------
(* PolicyConcSpec: two callers run the access-policy handlers against the    *)
(* same cluster, interleaved at every API call, without API failure.         *)

\* The associations a policy can have when the callers start.
InitScopes ==
    { NoScope, ClusterAccess, NamespaceAccess(<<"ns1">>),
      NamespaceAccess(<<"ns2", "ns1">>) }

PolicyConcInit ==
    /\ assoc \in [PolicyPrincipals \X PolicyArns -> InitScopes]
    /\ accessEntries = {x[1] : x \in {y \in PolicyPrincipals \X PolicyArns :
                                         assoc[y] # NoScope}}
    /\ plast = NoPolicyCall
    /\ pc = [c \in Callers |-> "idle"]
    /\ req = [c \in Callers |-> PolicyIdle]
    /\ done = [c \in Callers |-> 0]
    /\ configMap = ConfigMapOf("absent", <<>>) /\ bindings = {} /\ revision = 0
    /\ created = {} /\ BindParked /\ CacheParked /\ FnParked

PolicyConcNext ==
    \E c \in Callers :
        \/ \E principalARN \in PolicyPrincipals, policyARN \in PolicyArns :
              \E entitlementID \in EntitlementIDs(policyARN) :
                  AccessPolicyCall(c, "Grant", principalARN, policyARN, entitlementID)
        \/ \E principalARN \in PolicyPrincipals, policyARN \in PolicyArns :
              \E entitlementID \in EntitlementIDs(policyARN) :
                  AccessPolicyCall(c, "Revoke", principalARN, policyARN, entitlementID)
        \/ CreateAccessEntryStep(c)
        \/ GetPolicyScopeStep(c)
        \/ AssociateStep(c)
        \/ DisassociateStep(c)

PolicyConcSpec == PolicyConcInit /\ [][PolicyConcNext]_vars

-----------------------------------------------------------------------------
(* FnSpec: the pure functions of the connector, applied to inputs drawn from *)
(* bounded sets; fn holds the application.                                   *)

MaxRows == 2            \* rows of mapUsers, and access entries, in one input

SeqsUpTo(S, n) == UNION {[1..k -> S] : k \in 0..n}

\* Principal strings handed to the classifier.
FnArns ==
    { "arn:aws:iam::111:user/alice",
      "arn:aws:iam::111:user/bob",
      "arn:aws:iam::111:role/ops",
      "arn:aws:iam::111:root",
      "arn:aws:iam::111:group/devs",
      "arn:aws:iam::111:user",
      "arn:aws:sts::111:assumed-role/ops/s",
      "arn:aws:eks::111:role/ops",
      "arn:aws-cn:iam::111:user/li",
      "xarn:aws:iam::111:role/ops",
      "arn:aws:iam:111:user/al",
      "arn:aws:iam:::user/",
      "arn:aws:iam::111:oidc-provider/x:role/y",
      ":user/arn:aws:iam::",
      "ARN:AWS:IAM::111:USER/AL",
      "alice",
      "",
      "arn:aws:iam::" }

\* Namespace names a cluster can have: any DNS label.
ClusterNamespaceNames == Namespaces \cup {"default", "cluster", "assigned"}

FnScopes == {ClusterAccess} \cup {NamespaceAccess(<<n>>) : n \in ClusterNamespaceNames}

\* The ID of the entitlement Entitlements emits for a scope of a policy.
EntitlementFor(policyARN, scope) ==
    EntitlementID(policyARN,
                  AssignedSlug(IF scope.type = "cluster" THEN "cluster"
                               ELSE scope.namespaces[1]))

FnUserRows ==
    { MapRow(ArnAlice, "alice", <<"devs">>),
      MapRow(ArnAlice, "", <<"devs">>),
      MapRow(ArnBob, "", <<>>),
      MapRow(ArnBob, "alice", <<"devs", "ops">>),
      MapRow("", "alice", <<>>) }

FnRoleRows ==
    { MapRow(ArnOps, "", <<"ops">>),
      MapRow(ArnOps, "alice", <<>>) }

FnAwsAuthSources ==
    {AwsAuthSource(r, u, l) :
        r \in BOOLEAN,
        u \in {YamlList("absent", <<>>), YamlList("invalid", <<>>)}
                \cup {YamlList("list", rows) : rows \in SeqsUpTo(FnUserRows, MaxRows)},
        l \in {YamlList("absent", <<>>)}
                \cup {YamlList("list", rows) : rows \in SeqsUpTo(FnRoleRows, 1)}}

\* The texts of the two lists, row by row.
FnUserTexts ==
    SeqsUpTo({YamlRow(d, r) : d \in BOOLEAN,
                              r \in {MapRow(ArnAlice, "alice", <<"devs">>),
                                     MapRow(ArnBob, "bob", <<"ops">>)}}, MaxRows)

FnRoleTexts ==
    SeqsUpTo({YamlRow(d, r) : d \in BOOLEAN,
                              r \in {MapRow(ArnOps, "alice", <<"ops">>)}}, MaxRows)

FnAccessEntries ==
    { AccessEntry(ArnAlice, "ok", "STANDARD", "alice", <<"devs">>),
      AccessEntry(ArnOps, "ok", "STANDARD", "", <<"ops", "devs">>),
      AccessEntry("arn:aws:iam::111:root", "ok", "STANDARD", "root", <<"admins">>),
      AccessEntry("arn:aws:sts::111:assumed-role/ops/s", "ok", "STANDARD", "", <<"devs">>),
      AccessEntry(ArnBob, "error", "nil", "", <<>>),
      AccessEntry(ArnBob, "nil", "nil", "", <<>>),
      AccessEntry(ArnBob, "ok", "EC2_LINUX", "node", <<"nodes">>) }

FnAccessEntriesSources ==
    {[reachable |-> r, entries |-> e] :
        r \in BOOLEAN, e \in SeqsUpTo(FnAccessEntries, MaxRows)}

MaxListed == 3          \* namespaces of the cluster in one enumeration

\* The namespaces of a cluster, in the order the API lists them.
NamespaceLists ==
    {l \in SeqsUpTo(ClusterNamespaceNames, MaxListed) :
        \A i, j \in DOMAIN l : i # j => l[i] # l[j]}

\* The page size the API server applies (Entitlements sets no Limit); 0: none.
PageLimits == {0, 1, 2}

\* Namespaces().List with opts.Continue: the page that starts after the first
\* continue items, and the token of the next page, 0 (the empty string) on the
\* last page.
ListNamespaces(all, limit, continue, fault) ==
    LET next == IF limit = 0 \/ continue + limit >= Len(all) THEN Len(all)
                ELSE continue + limit
    IN  IF fault THEN [err |-> TRUE, items |-> <<>>, continue |-> 0]
        ELSE [err |-> FALSE, items |-> SubSeq(all, continue + 1, next),
              continue |-> IF next < Len(all) THEN next ELSE 0]

\* for _, ns := range namespaces.Items { ... "assigned:%s", ns.Name ... }
RECURSIVE NamespaceEntitlements(_, _, _)
NamespaceEntitlements(policyARN, items, entitlements) ==
    IF Len(items) = 0 THEN entitlements
    ELSE NamespaceEntitlements(policyARN, Tail(items),
             Append(entitlements, EntitlementID(policyARN, AssignedSlug(Head(items)))))

\* if namespaces.Continue != "" { return entitlements, nextPageToken, nil, nil }
LastPage(namespaces) == namespaces.continue = 0

\* accessPolicyBuilder.Entitlements for one page token: the IDs of the
\* entitlements of the page and the token of the next page.
accessPolicyBuilder_Entitlements(policyARN, all, limit, pToken, fault) ==
    LET namespaces == ListNamespaces(all, limit, pToken, fault)
        entitlements == NamespaceEntitlements(policyARN, namespaces.items, <<>>)
    IN  IF namespaces.err THEN [err |-> TRUE, entitlements |-> <<>>, next |-> 0]
        ELSE IF ~LastPage(namespaces)
             THEN [err |-> FALSE, entitlements |-> entitlements,
                   next |-> namespaces.continue]
        ELSE [err |-> FALSE,
              entitlements |-> Append(entitlements,
                                      EntitlementID(policyARN, AssignedSlug("cluster"))),
              next |-> 0]

\* The complete enumeration: Entitlements called with the empty token and then
\* with each token it returns, until it returns the empty token.
RECURSIVE EntitlementPages(_, _, _, _, _)
EntitlementPages(policyARN, all, limit, pToken, pages) ==
    LET r == accessPolicyBuilder_Entitlements(policyARN, all, limit, pToken, FALSE)
    IN  IF r.next = 0 THEN Append(pages, r.entitlements)
        ELSE EntitlementPages(policyARN, all, limit, r.next, Append(pages, r.entitlements))

MaxStatements == 2      \* statements of a trust policy

\* A JSON value as json.Unmarshal gives it for an interface{} field: a string,
\* a list ([]interface{}) of values, or something else (a number, an object).
JsonString(s) == [kind |-> "string", v |-> s, items |-> <<>>]
JsonList(items) == [kind |-> "list", v |-> "", items |-> items]
JsonOther == [kind |-> "other", v |-> "", items |-> <<>>]
JsonAbsent == [kind |-> "absent", v |-> "", items |-> <<>>]

\* The switch on the type of a string-or-list field: the string, or the strings
\* of the list in order; nothing for any other type.
StringValues(x) ==
    IF x.kind = "string" THEN <<x.v>>
    ELSE IF x.kind = "list"
         THEN LET strs == SelectSeq(x.items, LAMBDA a : a.kind = "string")
              IN  [i \in DOMAIN strs |-> strs[i].v]
    ELSE <<>>

extractActions(action) == StringValues(action)

extractPrincipalValues(principal) == StringValues(principal)

\* A variant that reads the Service principals too.
extractPrincipals_WithService(principal) ==
    (IF principal.AWS.kind # "absent" THEN extractPrincipalValues(principal.AWS) ELSE <<>>)
        \o (IF principal.Service.kind # "absent"
            THEN extractPrincipalValues(principal.Service) ELSE <<>>)

\* Principal is a map; a key that is not in it is JsonAbsent here.
extractPrincipals(principal) ==
    IF principal.AWS.kind # "absent" THEN extractPrincipalValues(principal.AWS) ELSE <<>>

Statement(effect, principal, action) ==
    [effect |-> effect, principal |-> principal, action |-> action]

PrincipalMap(awsPrincipals, service, federated) ==
    [AWS |-> awsPrincipals, Service |-> service, Federated |-> federated]

\* for _, action := range actions { if action == "sts:AssumeRole" { append } }
RECURSIVE ActionsLoop(_, _, _)
ActionsLoop(actions, statement, principals) ==
    IF Len(actions) = 0 THEN principals
    ELSE ActionsLoop(Tail(actions), statement,
             IF Head(actions) = "sts:AssumeRole"
             THEN principals \o extractPrincipals(statement.principal)
             ELSE principals)

RECURSIVE StatementsLoop(_, _)
StatementsLoop(statements, principals) ==
    IF Len(statements) = 0 THEN principals
    ELSE StatementsLoop(Tail(statements),
             IF Head(statements).effect = "Allow"
             THEN ActionsLoop(extractActions(Head(statements).action),
                              Head(statements), principals)
             ELSE principals)

\* doc: what GetIAMRoleTrustPolicy, url.QueryUnescape and json.Unmarshal make
\* of the role's trust policy: "ok" with the statements, or the step that fails.
TrustDocument(state, statements) == [state |-> state, statements |-> statements]

GetIAMRoleTrustPrincipals(doc) ==
    IF doc.state # "ok" THEN [err |-> TRUE, principals |-> <<>>]
    ELSE [err |-> FALSE, principals |-> StatementsLoop(doc.statements, <<>>)]

TrustActions ==
    { JsonString("sts:AssumeRole"),
      JsonString("sts:TagSession"),
      JsonList(<<JsonString("sts:TagSession"), JsonString("sts:AssumeRole")>>),
      JsonList(<<JsonString("sts:AssumeRoleWithWebIdentity"), JsonOther>>),
      JsonList(<<JsonString("sts:AssumeRole"), JsonString("sts:AssumeRole")>>),
      JsonOther }

TrustPrincipals ==
    { PrincipalMap(JsonString(ArnAlice), JsonAbsent, JsonAbsent),
      PrincipalMap(JsonList(<<JsonString(ArnOps), JsonString(ArnBob)>>), JsonAbsent, JsonAbsent),
      PrincipalMap(JsonAbsent, JsonString("ec2.amazonaws.com"), JsonAbsent),
      PrincipalMap(JsonString(ArnBob), JsonString("ecs-tasks.amazonaws.com"),
                   JsonString("cognito-identity.amazonaws.com")) }

TrustStatements ==
    {Statement(e, p, a) : e \in {"Allow", "Deny"}, p \in TrustPrincipals, a \in TrustActions}

TrustDocuments ==
    {TrustDocument("ok", s) : s \in SeqsUpTo(TrustStatements, MaxStatements)}
        \cup {TrustDocument(x, <<>>) : x \in {"getError", "badEncoding", "badJSON"}}

\* processGrants (helper.go).  A resource is [resourceType, resource].
ResourceTypeIAMUser == "iam_user"
ResourceTypeIAMRole == "iam_role"

GenerateResourceForGrant(name, resourceTypeID) ==
    [resourceType |-> resourceTypeID, resource |-> name]

\* A variant that takes every principal for an IAM user.
PrincipalResourceType_AlwaysUser(principalARN) == ResourceTypeIAMUser

\* resourceType := ResourceTypeIAMUser; if strings.Contains(principalARN, ":role/") ...
PrincipalResourceType(principalARN) ==
    IF StringsContains(Chars(principalARN), Chars(":role/"))
    THEN ResourceTypeIAMRole ELSE ResourceTypeIAMUser

\* The annotation of a grant: the expansion to the role's "assumes"
\* entitlement, or the match ID of the external user.
GrantAnnotation(principalARN) ==
    IF PrincipalResourceType(principalARN) = ResourceTypeIAMRole
    THEN [kind |-> "GrantExpandable",
          id |-> <<ResourceTypeIAMRole, principalARN, "assumes">>]
    ELSE [kind |-> "ExternalResourceMatchID", id |-> <<principalARN>>]

NewGrant(resource, entID, principalResource, annotation) ==
    [resource |-> resource, entitlement |-> entID, principal |-> principalResource,
     annotation |-> annotation]

RECURSIVE GrantsLoop(_, _, _, _)
GrantsLoop(matchingARNs, resource, entID, rv) ==
    IF Len(matchingARNs) = 0 THEN rv
    ELSE LET principalARN == Head(matchingARNs)
             g == NewGrant(resource, entID,
                           GenerateResourceForGrant(principalARN,
                                                    PrincipalResourceType(principalARN)),
                           GrantAnnotation(principalARN))
         IN  GrantsLoop(Tail(matchingARNs), resource, entID, Append(rv, g))

processGrants(matchingARNs, resource, entID) ==
    GrantsLoop(matchingARNs, resource, entID, <<>>)

\* The ARN lists, resources and entitlements processGrants is applied to.
GrantArns ==
    { ArnAlice, ArnOps, "arn:aws:eks::111:role/ops",
      "arn:aws:sts::111:assumed-role/ops/s", "alice" }

GrantResources ==
    { GenerateResourceForGrant("view", "cluster_role"),
      GenerateResourceForGrant("devs", "kube_group") }

Applied(op, in, out) == [op |-> op, in |-> in, out |-> out]

FnInit == fn = Applied("none", <<>>, <<>>)

FnFrame == UNCHANGED <<bindVars, concVars, cacheVars, policyVars>>

\* The functions keep no state between calls: each behaviour applies one
\* function to one input.
FnReady == fn.op = "none"

ClassifyArn(arn) ==
    /\ FnReady
    /\ fn' = Applied("isUserOrRoleArn", arn, isUserOrRoleArn(arn))
    /\ FnFrame

EmitAndParse(policyARN, scope) ==
    /\ FnReady
    /\ fn' = Applied("parseEntitlementScope",
                     [policy |-> policyARN, scope |-> scope,
                      id |-> EntitlementFor(policyARN, scope)],
                     parseEntitlementScope(EntitlementFor(policyARN, scope)))
    /\ FnFrame

ReadAwsAuth(src) ==
    /\ FnReady
    /\ fn' = Applied("getAwsAuthMappings", src, getAwsAuthMappings(src))
    /\ FnFrame

ReadAccessEntries(src) ==
    /\ FnReady
    /\ fn' = Applied("getAccessEntriesMappings", src, getAccessEntriesMappings(src))
    /\ FnFrame

EnumerateEntitlements(policyARN, all, limit) ==
    /\ FnReady
    /\ fn' = Applied("Entitlements",
                     [policy |-> policyARN, namespaces |-> all, limit |-> limit],
                     EntitlementPages(policyARN, all, limit, 0, <<>>))
    /\ FnFrame

FailedEntitlements(policyARN, all, limit) ==
    /\ FnReady
    /\ fn' = Applied("EntitlementsError",
                     [policy |-> policyARN, namespaces |-> all, limit |-> limit],
                     accessPolicyBuilder_Entitlements(policyARN, all, limit, 0, TRUE))
    /\ FnFrame

TrustPrincipalsOf(doc) ==
    /\ FnReady
    /\ fn' = Applied("GetIAMRoleTrustPrincipals", doc, GetIAMRoleTrustPrincipals(doc))
    /\ FnFrame

ProcessGrants(matchingARNs, resource, entID) ==
    /\ FnReady
    /\ fn' = Applied("processGrants",
                     [arns |-> matchingARNs, resource |-> resource, entID |-> entID],
                     processGrants(matchingARNs, resource, entID))
    /\ FnFrame

\* getAwsAuthMappings on a ConfigMap that is there, from the texts of its lists.
ReadAwsAuthText(users, roles) ==
    /\ FnReady
    /\ fn' = Applied("getAwsAuthMappingsOfText",
                     [mapUsers |-> users, mapRoles |-> roles],
                     getAwsAuthMappings(AwsAuthSource(TRUE, yamlUnmarshal(users),
                                                      yamlUnmarshal(roles))))
    /\ FnFrame

FnNext ==
    \/ \E arn \in FnArns : ClassifyArn(arn)
    \/ \E policyARN \in PolicyArns, scope \in FnScopes : EmitAndParse(policyARN, scope)
    \/ \E src \in FnAwsAuthSources : ReadAwsAuth(src)
    \/ \E users \in FnUserTexts, roles \in FnRoleTexts : ReadAwsAuthText(users, roles)
    \/ \E src \in FnAccessEntriesSources : ReadAccessEntries(src)
    \/ \E matchingARNs \in SeqsUpTo(GrantArns, MaxRows), resource \in GrantResources :
          ProcessGrants(matchingARNs, resource, "member")
    \/ \E policyARN \in PolicyArns, all \in NamespaceLists, limit \in PageLimits :
          EnumerateEntitlements(policyARN, all, limit)
    \/ \E policyARN \in PolicyArns, all \in NamespaceLists, limit \in PageLimits :
          FailedEntitlements(policyARN, all, limit)
    \/ \E doc \in TrustDocuments : TrustPrincipalsOf(doc)

FnSpecInit ==
    /\ FnInit
    /\ configMap = ConfigMapOf("absent", <<>>) /\ bindings = {} /\ revision = 0
    /\ created = {} /\ BindParked /\ ConcParked /\ CacheParked /\ PolicyParked

FnSpec == FnSpecInit /\ [][FnNext]_vars

-----------------------------------------------------------------------------
(* Properties of the engine, one caller (last is the call that returned).   *)

\* The positions at which the binding lists the username as a User subject.
UserPositions(b, username) ==
    {i \in DOMAIN b.subjects : b.subjects[i] = UserSubject(username)}

\* The bindings the binding provider returns for the last request, in the
\* current state and in the state before the request.
MatchingNow == ProviderSet(bindings, last.builder, last.role, last.ns)
MatchingBefore == ProviderSet(last.pre, last.builder, last.role, last.ns)

ListsUser(bs, username) == {b \in bs : UserPositions(b, username) # {}}

\* C1: a Grant that was applied, followed by the identical Grant (no API
\* failure): the second returns GrantAlreadyExists, and the binding that carries
\* the grant lists the User subject of the resolved username exactly once (no
\* other matching binding lists it).
C1_GrantTwice ==
    (last.op = "Grant" /\ last.prevOutcome = "applied" /\ last.fault = "none")
        => /\ last.outcome = "exists"
           /\ Cardinality(ListsUser(MatchingNow, last.username)) = 1
           /\ \A b \in ListsUser(MatchingNow, last.username) :
                 Cardinality(UserPositions(b, last.username)) = 1

C1_Witness ==
    /\ last.op = "Grant" /\ last.prevOutcome = "applied" /\ last.fault = "none"
    /\ last.outcome = "exists"
    /\ \E b \in MatchingNow : Key(b) \in created /\ UserPositions(b, last.username) # {}

\* C2: a Revoke (no API failure) for a principal without aws-auth mapping, or
\* whose username no matching binding lists as a User subject, returns
\* GrantAlreadyRevoked and writes nothing: bindings and ConfigMap are as before.
NeverGranted ==
    LET m == FindMapUser(last.preCm, last.principal)
    IN  \/ ~m.found
        \/ ListsUser(MatchingBefore, m.username) = {}

C2_RevokeNeverGranted ==
    (last.op = "Revoke" /\ last.fault = "none" /\ NeverGranted)
        => /\ last.outcome = "already_revoked"
           /\ bindings = last.pre
           /\ configMap = last.preCm

\* Both cases of C2 in one behaviour is not needed; the witness is the second
\* case with bindings present that list other subjects.
C2_Witness ==
    /\ last.op = "Revoke" /\ last.fault = "none" /\ last.outcome = "already_revoked"
    /\ FindMapUser(last.preCm, last.principal).found
    /\ MatchingBefore # {}
    /\ ListsUser(MatchingBefore, last.username) = {}
    /\ bindings = last.pre

\* C3: after a successful Revoke that found the user in binding B (last.target):
\* B is gone when the user was its last subject, else B has the previous
\* subjects minus the User subject of that username, in the same order.
C3_RevokeUpdatesOrDeletes ==
    (last.op = "Revoke" /\ last.outcome = "revoked")
        => LET B == last.target
               rest == filterSubjects(B.subjects, last.username)
               cur == FindBinding(bindings, B.kind, B.ns, B.name)
           IN  IF Len(rest) = 0
               THEN cur = {}
               ELSE \E b \in cur : b.subjects = rest

\* The state in which C3 fails: the user was the last subject of a RoleBinding
\* of another namespace than the one revoked, and the binding is still there.
C3_WrongNamespace ==
    /\ last.op = "Revoke" /\ last.outcome = "revoked"
    /\ last.target.kind = KindRB /\ last.target.ns # last.ns
    /\ Len(filterSubjects(last.target.subjects, last.username)) = 0
    /\ FindBinding(bindings, KindRB, last.target.ns, last.target.name) # {}

\* C15: a Grant (no API failure) for a principal without aws-auth entry appends
\* exactly one row userarn = username = principal ARN to mapUsers, whatever the
\* ConfigMap held before (a mapUsers list, or none), and afterwards a matching
\* binding lists the ARN as a User subject.
C15_GrantSelfMaps ==
    (/\ last.op = "Grant" /\ last.fault = "none"
     /\ last.preCm.state # "invalid"
     /\ ~FindMapUser(last.preCm, last.principal).found)
        => /\ last.outcome \in {"applied", "exists"}
           /\ configMap.state = "list"
           /\ configMap.rows = Append(last.preCm.rows,
                                      mapUser(last.principal, last.principal))
           /\ ListsUser(MatchingNow, last.principal) # {}

\* The state in which C15 fails: the ConfigMap has no mapUsers (or a blank one);
\* AddIAMUserMapping returns its error, no row is added and no binding written.
C15_NoMapUsersKey ==
    /\ last.op = "Grant" /\ last.fault = "none"
    /\ last.preCm.state = "absent"
    /\ last.outcome = "error"
    /\ configMap = last.preCm
    /\ bindings = last.pre

\* The matching bindings of the last request that lie in its scope: for a
\* namespace, the RoleBindings of that namespace.
MatchingInScope == {b \in MatchingNow : last.ns = ClusterScope \/ b.ns = last.ns}

\* C24: whenever a Grant of a cluster role returns without error (applied, or
\* GrantAlreadyExists), a binding of the scope granted that references the role
\* lists the resolved username as a User subject: a RoleBinding of namespace N
\* for namespace N, a ClusterRoleBinding for the cluster.  A RoleBinding of
\* another namespace does not count.
C24_GrantedInScope ==
    (/\ last.op = "Grant" /\ last.builder = "clusterRole"
     /\ last.outcome \in {"applied", "exists"})
        => ListsUser(MatchingInScope, last.username) # {}

\* The state in which C24 fails: the Grant for one namespace answered
\* GrantAlreadyExists because a RoleBinding of another namespace lists the
\* user, and no RoleBinding of the namespace granted does.
C24_ExistsElsewhere ==
    /\ last.op = "Grant" /\ last.builder = "clusterRole" /\ last.fault = "none"
    /\ last.ns # ClusterScope
    /\ last.outcome = "exists"
    /\ bindings = last.pre
    /\ \E b \in ListsUser(MatchingNow, last.username) : b.ns # last.ns
    /\ ListsUser(MatchingInScope, last.username) = {}

\* The RoleBindings that referenced the role of the last request before it,
\* in another namespace than the one it names.
MatchingElsewhereBefore == {b \in MatchingBefore : b.kind = KindRB /\ b.ns # last.ns}

\* C25: a Revoke of a cluster role for namespace N leaves the RoleBindings for
\* the role in other namespaces as they were: each still exists with all its
\* subjects, also when the user is one of them.
C25_RevokeStaysInNamespace ==
    (last.op = "Revoke" /\ last.builder = "clusterRole" /\ last.ns # ClusterScope)
        => \A b \in MatchingElsewhereBefore :
               \E c \in FindBinding(bindings, KindRB, b.ns, b.name) :
                   c.subjects = b.subjects

\* The state in which C25 fails: the Revoke for one namespace took the user out
\* of the RoleBinding of another namespace, which had further subjects.
C25_OtherNamespaceUpdated ==
    /\ last.op = "Revoke" /\ last.builder = "clusterRole" /\ last.fault = "none"
    /\ last.ns # ClusterScope
    /\ last.outcome = "revoked"
    /\ last.target \in MatchingElsewhereBefore
    /\ \E c \in FindBinding(bindings, KindRB, last.target.ns, last.target.name) :
           /\ c.subjects = filterSubjects(last.target.subjects, last.username)
           /\ c.subjects # last.target.subjects
           /\ Len(c.subjects) > 0

\* The rows of the ConfigMap's mapUsers that carry the ARN.
MappingRows(cm, userArn) == {i \in DOMAIN cm.rows : cm.rows[i].userarn = userArn}

\* The last call was a Grant that added the aws-auth mapping of its principal
\* and then failed: the listing or the write of the binding met an API failure.
FailedAfterMapping ==
    /\ last.op = "Grant" /\ last.outcome = "error"
    /\ last.fault \in {"list", "write"}
    /\ last.preCm.state = "list"
    /\ MappingRows(last.preCm, last.principal) = {}

\* The last call was the same Grant once more, with no API failure, after a
\* call that added the mapping and then failed.
RetriedGrant ==
    /\ last.op = "Grant" /\ last.fault = "none"
    /\ last.prevOutcome = "error"
    /\ last.prevFault \in {"list", "write"}
    /\ last.prevCm.state = "list"
    /\ MappingRows(last.prevCm, last.principal) = {}

\* C28: a Grant that fails after it committed a change leaves the change in
\* place (the aws-auth row it added is still there), and the same Grant run
\* again without API failure completes (applied or GrantAlreadyExists), with one
\* mapUsers row for the principal and the username exactly once in a matching
\* binding.
C28_RetryCompletes ==
    /\ FailedAfterMapping =>
             /\ configMap.state = "list"
             /\ Cardinality(MappingRows(configMap, last.principal)) = 1
    /\ RetriedGrant =>
             /\ last.outcome \in {"applied", "exists"}
             /\ Cardinality(MappingRows(configMap, last.principal)) = 1
             /\ ListsUser(MatchingNow, last.username) # {}
             /\ \A b \in ListsUser(MatchingNow, last.username) :
                   Cardinality(UserPositions(b, last.username)) = 1

\* The state in which C28 fails: the Grant before added the mapping and failed,
\* the same Grant was run again without API failure and returned an error,
\* because the canonical name is taken by a RoleBinding of the namespace that
\* references a Role of the same name as the ClusterRole.
C28_RetryRefused ==
    /\ last.op = "Grant" /\ last.builder = "clusterRole"
    /\ last.prevOutcome = "error" /\ last.fault = "none"
    /\ last.outcome = "error"
    /\ last.preCm.rv > 0
    /\ Cardinality(MappingRows(last.preCm, last.principal)) = 1
    /\ configMap = last.preCm /\ bindings = last.pre
    /\ \E b \in bindings :
          /\ b.name = CanonicalName(last.builder, last.role, last.ns)
          /\ b.ns = last.ns /\ b.kind = KindRB
          /\ b.roleRef.kind = "Role"

\* The matching bindings that carried the canonical name before the last call,
\* and the scope-and-role details of the binding a Grant creates.
CanonicalBefore ==
    {b \in MatchingBefore : b.name = CanonicalName(last.builder, last.role, last.ns)}

CreatedShape(nb) ==
    /\ nb.name = CanonicalName(last.builder, last.role, last.ns)
    /\ nb.ns = last.ns
    /\ nb.kind = (IF last.builder = "clusterRole" /\ last.ns = ClusterScope
                  THEN KindCRB ELSE KindRB)
    /\ nb.roleRef = (IF last.builder = "clusterRole" THEN ClusterRoleRef(last.role)
                     ELSE RoleRef(last.role))
    /\ nb.subjects = <<UserSubject(last.username)>>

\* The last call was a Grant without API failure that resolved its username
\* and found no matching binding listing it.
GrantMustWrite ==
    /\ last.op = "Grant" /\ last.fault = "none"
    /\ last.preCm.state = "list"
    /\ ListsUser(MatchingBefore, last.username) = {}

\* C29: when no matching binding lists the user, a Grant that finds a matching
\* binding with the canonical name updates it to its previous subjects followed
\* by one new User subject and creates nothing; otherwise it creates one
\* binding with the canonical name, the reference to the role and exactly one
\* subject of kind User.
C29_UpdateOrCreate ==
    GrantMustWrite =>
        IF CanonicalBefore # {}
        THEN /\ last.outcome = "applied"
             /\ \E b \in CanonicalBefore, nb \in bindings :
                   /\ Key(nb) = Key(b) /\ nb.roleRef = b.roleRef
                   /\ nb.subjects = Append(b.subjects, UserSubject(last.username))
                   /\ bindings \ {nb} = last.pre \ {b}
        ELSE /\ last.outcome = "applied"
             /\ \E nb \in bindings \ last.pre :
                   /\ CreatedShape(nb)
                   /\ bindings = last.pre \cup {nb}
                   /\ \A b \in last.pre : Key(b) # Key(nb)

\* The state in which C29 fails: a Grant (not a retry) that resolved a username,
\* found no matching binding with the canonical name, and the canonical name
\* held by a binding of the same kind and namespace that references another
\* role; the create was refused and no binding was written.
C29_CanonicalNameTaken ==
    /\ GrantMustWrite /\ CanonicalBefore = {}
    /\ last.username # ""
    /\ last.prevOutcome # "error"
    /\ last.outcome = "error"
    /\ bindings = last.pre
    /\ \E b \in last.pre \ MatchingBefore :
          /\ b.name = CanonicalName(last.builder, last.role, last.ns)
          /\ b.kind = KindRB /\ b.ns = last.ns

\* C32: a Revoke leaves the aws-auth ConfigMap as it was, whatever its outcome;
\* for a principal without mapUsers row (the ConfigMap was read) it returns
\* GrantAlreadyRevoked and leaves the bindings too; a call that changed the
\* ConfigMap was a Grant.
C32_RevokeKeepsConfigMap ==
    /\ last.op = "Revoke" => configMap = last.preCm
    /\ (last.op = "Revoke" /\ last.fault # "cmGet"
            /\ ~FindMapUser(last.preCm, last.principal).found)
          => (last.outcome = "already_revoked" /\ bindings = last.pre)
    /\ (last.op # "none" /\ configMap # last.preCm) => last.op = "Grant"

\* A Revoke for a principal without row, in a ConfigMap that maps the other
\* principal, with bindings of the role present: GrantAlreadyRevoked.
C32_Witness ==
    /\ last.op = "Revoke" /\ last.outcome = "already_revoked"
    /\ last.preCm.state = "list" /\ Len(last.preCm.rows) > 0
    /\ MappingRows(last.preCm, last.principal) = {}
    /\ configMap = last.preCm /\ bindings = last.pre
    /\ MatchingBefore # {}

\* The bindings the last call wrote that carry a User subject without name
\* which they did not carry before.
EmptyNameWritten ==
    {nb \in bindings \ last.pre :
        /\ UserPositions(nb, "") # {}
        /\ \A b \in last.pre : Key(b) = Key(nb) => UserPositions(b, "") = {}}

\* C39: no Grant writes a binding subject with an empty name; when the row of
\* the principal in mapUsers has an absent or empty username, the subject of
\* the binding is named by the ARN of the principal.
C39_SubjectNamed ==
    (last.op = "Grant" /\ last.outcome = "applied")
        => /\ EmptyNameWritten = {}
           /\ (/\ FindMapUser(last.preCm, last.principal).found
               /\ FindMapUser(last.preCm, last.principal).username = "")
                  => last.username = last.principal

\* A Grant without API failure for a principal whose row has no username: the
\* binding written lists a User subject with the empty name.
C39_EmptySubjectWritten ==
    /\ last.op = "Grant" /\ last.outcome = "applied" /\ last.fault = "none"
    /\ FindMapUser(last.preCm, last.principal) = [found |-> TRUE, username |-> ""]
    /\ last.username = ""
    /\ EmptyNameWritten # {}
    /\ configMap = last.preCm

-----------------------------------------------------------------------------
(* Properties of the engine under interleaving.                             *)

EngineMade == {b \in bindings : Key(b) \in created}

\* C4: for every (role, scope) there is at most one binding made by the engine,
\* it carries the canonical name of the pair, and no two objects of a kind and
\* namespace share a name; two callers interleave their Grants and Revokes.
C4_AtMostOneBinding ==
    /\ \A b1, b2 \in bindings : Key(b1) = Key(b2) => b1 = b2
    /\ \A b \in EngineMade :
          b.name = IF b.kind = KindCRB THEN ClusterBindingName(b.roleRef.name)
                   ELSE RoleBindingName(b.roleRef.name, b.ns)
    /\ \A b1, b2 \in EngineMade :
          (b1.kind = b2.kind /\ b1.ns = b2.ns /\ b1.roleRef = b2.roleRef) => b1 = b2

\* Two Grants on the same (role, scope) raced to create the binding: one
\* created it, the other's create was refused.
C4_Witness ==
    \E c, d \in Callers :
        /\ c # d
        /\ req[c].op = "Grant" /\ req[d].op = "Grant"
        /\ req[c].builder = req[d].builder /\ req[c].role = req[d].role
        /\ req[c].ns = req[d].ns /\ req[c].ns # ClusterScope
        /\ req[c].outcome = "applied" /\ req[d].outcome = "error"
        /\ req[d].username # "" /\ req[d].username # req[c].username
        /\ \E b \in EngineMade :
              /\ b.ns = req[c].ns
              /\ b.subjects = <<UserSubject(req[c].username)>>

\* Two callers that have both returned from a Grant on the same role and
\* scope, for different principals, the two Grants being the only requests
\* made (no Revoke before or between them).
GrantPairs ==
    {p \in Callers \X Callers :
        /\ p[1] # p[2]
        /\ done[p[1]] = 1 /\ done[p[2]] = 1
        /\ pc[p[1]] = "idle" /\ pc[p[2]] = "idle"
        /\ req[p[1]].op = "Grant" /\ req[p[2]].op = "Grant"
        /\ req[p[1]].outcome # "none" /\ req[p[2]].outcome # "none"
        /\ req[p[1]].builder = req[p[2]].builder /\ req[p[1]].role = req[p[2]].role
        /\ req[p[1]].ns = req[p[2]].ns
        /\ req[p[1]].principal # req[p[2]].principal}

ReqMatching(c) == ProviderSet(bindings, req[c].builder, req[c].role, req[c].ns)

\* C26: two Grants for different principals on the same (role, scope), their
\* reads and writes interleaved: afterwards at least one of them returned an
\* error, or both users are subjects of a matching binding, and of the same
\* binding when both Grants wrote.
C26_NoSubjectLost ==
    \A p \in GrantPairs :
        \/ req[p[1]].outcome = "error"
        \/ req[p[2]].outcome = "error"
        \/ /\ ListsUser(ReqMatching(p[1]), req[p[1]].username) # {}
           /\ ListsUser(ReqMatching(p[2]), req[p[2]].username) # {}
           /\ (req[p[1]].outcome = "applied" /\ req[p[2]].outcome = "applied")
                  => \E b \in ReqMatching(p[1]) :
                         /\ UserPositions(b, req[p[1]].username) # {}
                         /\ UserPositions(b, req[p[2]].username) # {}

\* Both Grants read the binding that was there before either wrote; the first
\* update was applied, the second was refused and its Grant returned the
\* error: the binding lists the first user, not the second.
C26_Witness ==
    \E p \in GrantPairs :
        /\ req[p[1]].outcome = "applied" /\ req[p[2]].outcome = "error"
        /\ req[p[2]].username # "" /\ req[p[2]].username # req[p[1]].username
        /\ \E b \in ReqMatching(p[1]) :
               /\ Key(b) \notin created
               /\ b.name = CanonicalName(req[p[1]].builder, req[p[1]].role, req[p[1]].ns)
               /\ UserPositions(b, req[p[1]].username) # {}
               /\ UserPositions(b, req[p[2]].username) = {}
               /\ Len(b.subjects) > 1

\* The callers that have returned from a Grant.
Granted == {c \in Callers : pc[c] = "idle" /\ req[c].op = "Grant" /\ req[c].outcome # "none"}

\* The binding with the canonical name of the caller's request was made by the
\* engine in this behaviour: it was not there when the callers started.
CanonicalMadeMeanwhile(c) ==
    \E b \in EngineMade :
        /\ b.name = CanonicalName(req[c].builder, req[c].role, req[c].ns)
        /\ b.kind = (IF req[c].builder = "clusterRole" /\ req[c].ns = ClusterScope
                     THEN KindCRB ELSE KindRB)
        /\ b.ns = req[c].ns

\* C27: a Grant whose create meets "already exists" because another writer
\* made the object in the meantime (the canonical binding, or the aws-auth row
\* of the principal) does not fail for it, and its user is a subject of a
\* matching binding afterwards.
C27_AlreadyExistsTolerated ==
    \A c \in Granted :
        (\/ req[c].failed = "user already exists"
         \/ req[c].failed = "create" /\ CanonicalMadeMeanwhile(c))
            => /\ req[c].outcome # "error"
               /\ ListsUser(ReqMatching(c), req[c].username) # {}

\* The state in which C27 fails: two Grants found no canonical binding, one
\* created it, and the other returned the error of its create.
C27_CreateRefused ==
    \E c, d \in Granted :
        /\ c # d
        /\ req[c].builder = req[d].builder /\ req[c].role = req[d].role
        /\ req[c].ns = req[d].ns
        /\ req[d].outcome = "applied"
        /\ req[c].outcome = "error" /\ req[c].failed = "create"
        /\ CanonicalMadeMeanwhile(c)
        /\ ListsUser(ReqMatching(c), req[c].username) = {}

\* C33: a Revoke that removes the last subject and whose delete finds the
\* binding gone returns success (no error), and the delete changes nothing.
C33_DeleteOfGoneBindingSucceeds ==
    /\ [](\A c \in Callers :
             (pc[c] = "idle" /\ req[c].op = "Revoke" /\ req[c].gone)
                => (req[c].outcome = "revoked" /\ req[c].failed = "none"))
    /\ [][\A c \in Callers :
             (pc[c] = "write" /\ DeleteFindsNothing(c) /\ pc'[c] = "idle")
                => bindings' = bindings]_vars

\* Two Revokes of the same grant both found the user as the only subject of
\* the binding; one deleted it, the delete of the other found it gone; both
\* returned success and the binding does not exist.
C33_Witness ==
    \E c, d \in Callers :
        /\ c # d
        /\ pc[c] = "idle" /\ pc[d] = "idle"
        /\ req[c].op = "Revoke" /\ req[d].op = "Revoke"
        /\ req[c].principal = req[d].principal /\ req[c].builder = req[d].builder
        /\ req[c].role = req[d].role /\ req[c].ns = req[d].ns
        /\ req[c].outcome = "revoked" /\ ~req[c].gone
        /\ req[d].outcome = "revoked" /\ req[d].gone
        /\ ListsUser(ReqMatching(d), req[d].username) = {}

-----------------------------------------------------------------------------
(* Properties of the identity mapping cache.                                *)

Refreshing == {c \in Callers : cpc[c] \in RefreshBody}

\* C5: after a refresh has returned with success at time t (installed.done), a
\* lookup called before t + cacheTTL does not enter the refresh body, so it
\* reads neither source, and it returns (no error, no crash) the entry of the
\* installed snapshot.
C5_ServedFromSnapshotWithinTTL ==
    /\ \A c \in Refreshing : ~loc[c].inTTL
    /\ (got.kind # "none" /\ got.inTTL) => (got.kind = "value" /\ got.value = got.expect)

\* The state in which C5 fails, with one caller: the refresh took its time at
\* minute t0 and returned later, the expiry is t0 + cacheTTL, and a lookup called
\* less than cacheTTL after the return, but not before the expiry, is reading
\* the sources again.
C5_RefreshWithinTTL ==
    \E c \in Refreshing :
        /\ loc[c].inTTL /\ ~loc[c].contended
        /\ \A d \in Callers \ {c} : cpc[d] = "idle"
        /\ installed.done > installed.t
        /\ loc[c].t >= idCacheExpiry
        /\ loc[c].t < installed.done + cacheTTL

\* The other state in which C5 fails: a lookup called within cacheTTL of the
\* refresh returned the entry of the map another caller had cleared.
C5_ClearedMapWithinTTL ==
    /\ got.kind = "value" /\ got.inTTL /\ ~got.refreshed
    /\ got.expect # <<>> /\ got.value = <<>>

C7_LookupReadsCompleteSnapshot ==
    /\ got.kind # "fatal"
    /\ got.kind = "value" => got.value = got.expect

\* The state in which C7 fails: a lookup found the cache valid, and read the map
\* after a later refresh had cleared it.
C7_ReadOfClearedMap ==
    /\ got.kind = "value" /\ ~got.refreshed
    /\ got.value = <<>> /\ got.expect # <<>>

\* C8: a refresh in which both readers failed returns an error and leaves the
\* two maps with the content they had when it was called.
C8_BothFailKeepsSnapshot ==
    (lastLoad.aws.err /\ lastLoad.ent.err)
        => (lastLoad.kind = "failed" /\ lastLoad.after = lastLoad.before)

\* The state in which C8 fails: the maps held entries and are empty afterwards.
C8_SnapshotLost ==
    /\ lastLoad.kind = "failed"
    /\ lastLoad.before.users # EmptyMap
    /\ lastLoad.after.users = EmptyMap
    /\ cacheUsersMap = EmptyMap

\* C9: a refresh in which exactly one reader failed succeeds, and the maps it
\* installs are the maps the other reader returned.
SourceMaps(r) == [users |-> r.users, groups |-> r.groups]

C9_OneSourceFails ==
    (lastLoad.kind \in {"failed", "refreshed"} /\ lastLoad.aws.err # lastLoad.ent.err)
        => /\ lastLoad.kind = "refreshed"
           /\ lastLoad.after = SourceMaps(IF lastLoad.aws.err THEN lastLoad.ent
                                          ELSE lastLoad.aws)

C9_Witness ==
    /\ lastLoad.kind = "refreshed"
    /\ lastLoad.aws.err /\ ~lastLoad.ent.err
    /\ MapGet(lastLoad.before.users, "alice") = <<ArnAlice, ArnOps>>
    /\ MapGet(cacheUsersMap, "alice") = <<ArnOps>>
    /\ MapGet(cacheGroupsMap, "devs") = <<ArnAlice>>
    /\ cacheUsersMap = lastLoad.ent.users /\ cacheGroupsMap = lastLoad.ent.groups

\* C19: a refresh in which both readers succeeded installs maps whose keys are
\* the keys of either reader, and under each key the list of the aws-auth
\* reader followed by the list of the access-entry reader, duplicates kept.
MergedOf(first, second, m) ==
    /\ DOMAIN m = DOMAIN first \cup DOMAIN second
    /\ \A k \in DOMAIN m : m[k] = MapGet(first, k) \o MapGet(second, k)

C19_BothSourcesMerged ==
    (lastLoad.kind = "refreshed" /\ ~lastLoad.aws.err /\ ~lastLoad.ent.err)
        => /\ MergedOf(lastLoad.aws.users, lastLoad.ent.users, lastLoad.after.users)
           /\ MergedOf(lastLoad.aws.groups, lastLoad.ent.groups, lastLoad.after.groups)

\* Both readers returned and the snapshot is installed: "alice" has the ARN of
\* aws-auth before the one of the access entries, "devs" the same ARN twice,
\* and there are keys that one reader alone returned.
C19_Witness ==
    /\ lastLoad.kind = "refreshed" /\ ~lastLoad.aws.err /\ ~lastLoad.ent.err
    /\ cacheUsersMap = lastLoad.after.users /\ cacheGroupsMap = lastLoad.after.groups
    /\ MapGet(cacheUsersMap, "alice") = <<ArnAlice, ArnOps>>
    /\ MapGet(cacheGroupsMap, "devs") = <<ArnAlice, ArnAlice>>
    /\ MapGet(cacheUsersMap, ArnAlice) = <<ArnAlice>>
    /\ "ops" \in DOMAIN cacheGroupsMap \ DOMAIN lastLoad.aws.groups
    /\ DOMAIN lastLoad.aws.groups = {"devs"}

\* The caller passes identityMutex.Lock() and makes its staleness check.
StartsCheck(c) == cpc[c] = "lock" /\ cpc'[c] \in {"read", "clear"}

\* C30: at most one caller is inside LoadIdentityCacheMaps between Lock and
\* Unlock, and it holds the mutex; the mutex is free whenever nobody is inside
\* (the process running), after a refresh that failed as after one that
\* installed; and a caller makes its staleness check only in a step that starts
\* with nobody inside.
C30_RefreshSerialized ==
    /\ [](/\ Cardinality(Refreshing) <= 1
          /\ \A c \in Refreshing : identityMutex = c
          /\ (Refreshing = {} /\ \A c \in Callers : cpc[c] # "fatal")
                => identityMutex = NoOne)
    /\ [][\A c \in Callers : StartsCheck(c) => Refreshing = {}]_vars

\* A refresh failed and returned; the other caller then entered the refresh
\* body, and the first, having called again meanwhile, waits for the mutex.
C30_Witness ==
    \E c, d \in Callers :
        /\ c # d
        /\ cpc[c] \in RefreshBody /\ identityMutex = c
        /\ cpc[d] = "lock" /\ loc[d].contended
        /\ lastLoad.kind = "failed"

\* Both readers of the last refresh returned an error.
LastBothFailed == lastLoad.kind # "none" /\ lastLoad.aws.err /\ lastLoad.ent.err

\* C31: a refresh whose two sources both failed returns its error with
\* idCacheExpiry as it was; as long as no later refresh has read the sources
\* the cache stays expired, so the next caller that makes the staleness check
\* enters the refresh body.
C31_FailedRefreshRetried ==
    /\ [](LastBothFailed => (lastLoad.kind = "failed" /\ now >= idCacheExpiry))
    /\ [][(\E c \in Callers : cpc[c] = "entries" /\ cpc'[c] = "idle")
             => idCacheExpiry' = idCacheExpiry]_vars
    /\ [][\A c \in Callers : (LastBothFailed /\ StartsCheck(c)) => cpc'[c] = "clear"]_vars

\* A snapshot had been installed and expired, the refresh after it failed, and
\* the next caller, at the same time, is in the refresh body again.
C31_Witness ==
    \E c \in Callers :
        /\ lastLoad.kind = "failed"
        /\ cpc[c] = "clear"
        /\ installed.t >= 0 /\ idCacheExpiry = installed.t + cacheTTL
        /\ loc[c].t >= idCacheExpiry
        /\ \A d \in Callers \ {c} : cpc[d] = "idle"

-----------------------------------------------------------------------------
(* Properties of the access-policy handlers.                                *)

AssociationCalls == {"AssociateAccessPolicy", "DisassociateAccessPolicy"}

\* C10: a Grant of a namespace scope for a principal whose association for the
\* policy is cluster-scoped returns an error, calls neither AssociateAccessPolicy
\* nor DisassociateAccessPolicy, and leaves every association as it was.
C10_NamespaceGrantOnClusterScope ==
    (/\ plast.op = "Grant"
     /\ parseEntitlementScope(plast.id).type = "namespace"
     /\ plast.pre[<<plast.principal, plast.policy>>] = ClusterAccess)
        => /\ plast.outcome = "error"
           /\ \A i \in DOMAIN plast.apiCalls : plast.apiCalls[i] \notin AssociationCalls
           /\ assoc = plast.pre

\* The conflict was found by the handler itself: no API call failed.
C10_Witness ==
    /\ plast.op = "Grant" /\ plast.fault = "none"
    /\ parseEntitlementScope(plast.id) = NamespaceAccess(<<"ns1">>)
    /\ plast.pre[<<plast.principal, plast.policy>>] = ClusterAccess
    /\ plast.outcome = "error"
    /\ plast.apiCalls = <<"CreateAccessEntry", "ListAssociatedAccessPolicies">>
    /\ assoc[<<plast.principal, plast.policy>>] = ClusterAccess

SeqSet(l) == {l[i] : i \in DOMAIN l}

PlastScope == parseEntitlementScope(plast.id)
PlastBefore == plast.pre[<<plast.principal, plast.policy>>]
PlastAfter == assoc[<<plast.principal, plast.policy>>]
PlastUntouchedElsewhere ==
    \A x \in DOMAIN assoc : x # <<plast.principal, plast.policy>> => assoc[x] = plast.pre[x]

\* C11: a Grant of namespace n (no API failure) when the association is
\* Namespace(L): with n in L it returns GrantAlreadyExists, makes no association
\* call and leaves the association; with n not in L it associates the policy
\* with a namespace scope whose set of namespaces is L plus n, without
\* duplicates.
C11_NamespaceGrantMerges ==
    (/\ plast.op = "Grant" /\ plast.fault = "none"
     /\ PlastScope.type = "namespace"
     /\ PlastBefore.type = "namespace")
        => LET n == PlastScope.namespaces[1]
               L == PlastBefore.namespaces
           IN  IF Contains(L, n)
               THEN /\ plast.outcome = "exists"
                    /\ \A i \in DOMAIN plast.apiCalls : plast.apiCalls[i] \notin AssociationCalls
                    /\ assoc = plast.pre
               ELSE /\ plast.outcome = "applied"
                    /\ PlastAfter.type = "namespace"
                    /\ SeqSet(PlastAfter.namespaces) = SeqSet(L) \cup {n}
                    /\ Len(PlastAfter.namespaces) = Len(L) + 1
                    /\ PlastUntouchedElsewhere

\* A second namespace was added to an association that had one.
C11_Witness ==
    /\ plast.op = "Grant" /\ plast.fault = "none" /\ plast.outcome = "applied"
    /\ PlastBefore = NamespaceAccess(<<"ns1">>)
    /\ PlastScope = NamespaceAccess(<<"ns2">>)
    /\ SeqSet(PlastAfter.namespaces) = {"ns1", "ns2"}

\* C12: a Revoke (no API failure) for a principal that has no association for
\* the policy returns GrantAlreadyRevoked, whatever the scope of the
\* entitlement, and changes nothing.
C12_RevokeWithoutAssociation ==
    (plast.op = "Revoke" /\ plast.fault = "none" /\ PlastBefore = NoScope)
        => (plast.outcome = "already_revoked" /\ assoc = plast.pre)

\* The state in which C12 fails: the cluster-scoped entitlement goes to
\* DisassociateAccessPolicy without a look at the association, and the handler
\* returns without the GrantAlreadyRevoked annotation.
C12_ClusterRevokeNotAnnotated ==
    /\ plast.op = "Revoke" /\ plast.fault = "none" /\ PlastBefore = NoScope
    /\ PlastScope = ClusterAccess
    /\ plast.apiCalls = <<"DisassociateAccessPolicy">>
    /\ plast.outcome = "revoked"

\* C13: a Revoke of namespace n (no API failure) when the association is
\* Namespace(L) with n in L: with L = <<n>> the policy is disassociated;
\* otherwise it is associated again with L minus n, in the order of L.
C13_NamespaceRevokeReduces ==
    (/\ plast.op = "Revoke" /\ plast.fault = "none"
     /\ PlastScope.type = "namespace"
     /\ PlastBefore.type = "namespace"
     /\ Contains(PlastBefore.namespaces, PlastScope.namespaces[1]))
        => LET n == PlastScope.namespaces[1]
               L == PlastBefore.namespaces
           IN  /\ plast.outcome = "revoked"
               /\ PlastUntouchedElsewhere
               /\ IF SeqSet(L) = {n}
                  THEN PlastAfter = NoScope
                  ELSE /\ PlastAfter.type = "namespace"
                       /\ PlastAfter.namespaces = SelectSeq(L, LAMBDA m : m # n)
                       /\ SeqSet(PlastAfter.namespaces) = SeqSet(L) \ {n}

\* One of two namespaces was revoked; the other keeps its access.
C13_Witness ==
    /\ plast.op = "Revoke" /\ plast.fault = "none" /\ plast.outcome = "revoked"
    /\ SeqSet(PlastBefore.namespaces) = {"ns1", "ns2"}
    /\ PlastScope = NamespaceAccess(<<"ns1">>)
    /\ PlastAfter = NamespaceAccess(<<"ns2">>)
    /\ plast.apiCalls = <<"ListAssociatedAccessPolicies", "AssociateAccessPolicy">>

\* C14: a Revoke of a namespace scope when the association is cluster-scoped
\* returns an error, calls neither AssociateAccessPolicy nor
\* DisassociateAccessPolicy, and leaves every association as it was.
C14_NamespaceRevokeOnClusterScope ==
    (/\ plast.op = "Revoke"
     /\ PlastScope.type = "namespace"
     /\ PlastBefore = ClusterAccess)
        => /\ plast.outcome = "error"
           /\ \A i \in DOMAIN plast.apiCalls : plast.apiCalls[i] \notin AssociationCalls
           /\ assoc = plast.pre

\* The conflict was found by the handler itself: no API call failed.
C14_Witness ==
    /\ plast.op = "Revoke" /\ plast.fault = "none"
    /\ PlastScope = NamespaceAccess(<<"ns2">>)
    /\ PlastBefore = ClusterAccess
    /\ plast.outcome = "error"
    /\ plast.apiCalls = <<"ListAssociatedAccessPolicies">>
    /\ PlastAfter = ClusterAccess

\* The entitlement ID of the last call has no ":assigned:<scope>" part.
PlastWithoutScopePart == plast.id = <<"access_policy">> \o plast.policy

\* C17: a Grant or a Revoke whose entitlement ID has no ":assigned:<scope>"
\* part fails and changes no association; the ID is never taken for the cluster
\* scope.
C17_MissingScopeRejected ==
    (plast.op \in {"Grant", "Revoke"} /\ PlastWithoutScopePart)
        => (plast.outcome = "error" /\ assoc = plast.pre)

\* The state in which C17 fails: a Grant with such an ID associated the policy
\* with the cluster scope.
C17_GrantTakenForCluster ==
    /\ plast.op = "Grant" /\ plast.fault = "none" /\ PlastWithoutScopePart
    /\ PlastBefore = NoScope
    /\ plast.outcome = "applied"
    /\ "AssociateAccessPolicy" \in SeqSet(plast.apiCalls)
    /\ PlastAfter = ClusterAccess

\* The scope an entitlement ID of Entitlements names: its last part, "cluster"
\* or a namespace.
RequestedScope ==
    LET x == plast.id[Len(plast.id)]
    IN  IF x = "cluster" THEN ClusterAccess ELSE NamespaceAccess(<<x>>)

\* C35: a Grant (no API failure, an entitlement ID with its scope part) for a
\* pair without association associates the policy with exactly the requested
\* scope; a Grant of the cluster scope leaves a cluster association whatever
\* the association was before.  No other pair is touched.
C35_GrantAssociatesRequestedScope ==
    (plast.op = "Grant" /\ plast.fault = "none" /\ ~PlastWithoutScopePart)
        => /\ PlastBefore = NoScope
                => (plast.outcome = "applied" /\ PlastAfter = RequestedScope)
           /\ RequestedScope = ClusterAccess
                => (plast.outcome = "applied" /\ PlastAfter = ClusterAccess)
           /\ PlastUntouchedElsewhere

\* A Grant of the cluster scope replaced a namespace association.
C35_Witness ==
    /\ plast.op = "Grant" /\ plast.fault = "none" /\ ~PlastWithoutScopePart
    /\ RequestedScope = ClusterAccess
    /\ PlastBefore.type = "namespace" /\ Len(PlastBefore.namespaces) > 0
    /\ plast.outcome = "applied"
    /\ PlastAfter = ClusterAccess

\* C36: a Revoke of the cluster-scope entitlement for a pair whose association
\* is namespace-scoped leaves that association as it was.
C36_ClusterRevokeKeepsNamespaces ==
    (/\ plast.op = "Revoke" /\ ~PlastWithoutScopePart
     /\ RequestedScope = ClusterAccess
     /\ PlastBefore.type = "namespace")
        => PlastAfter = PlastBefore

\* The state in which C36 fails: the Revoke of the cluster-scope entitlement
\* went to DisassociateAccessPolicy without reading the association, and the
\* namespace association is gone.
C36_NamespacesDisassociated ==
    /\ plast.op = "Revoke" /\ plast.fault = "none" /\ ~PlastWithoutScopePart
    /\ RequestedScope = ClusterAccess
    /\ PlastBefore.type = "namespace" /\ Len(PlastBefore.namespaces) = 2
    /\ plast.outcome = "revoked"
    /\ plast.apiCalls = <<"DisassociateAccessPolicy">>
    /\ PlastAfter = NoScope

\* C37: a Grant calls CreateAccessEntry first.  When the answer is that the
\* entry exists, the Grant goes on to the association calls; when the creation
\* fails for another reason (a server error, a refusal that is not about an
\* existing entry) the Grant returns an error having made no other call, and
\* no association has changed.  After a Grant that succeeded the principal has
\* an access entry, unless the creation was answered "already exists".
C37_EntryEnsuredFirst ==
    plast.op = "Grant"
        => /\ Len(plast.apiCalls) > 0 /\ plast.apiCalls[1] = "CreateAccessEntry"
           /\ (plast.fault = "none" /\ plast.principal \in plast.preEntries)
                 => Len(plast.apiCalls) > 1
           /\ plast.fault \in {"entry", "entryClient"}
                 => /\ plast.outcome = "error"
                    /\ plast.apiCalls = <<"CreateAccessEntry">>
                    /\ assoc = plast.pre
           /\ (plast.fault = "none" /\ plast.outcome \in {"applied", "exists"})
                 => plast.principal \in accessEntries

\* The state in which C37 fails: CreateAccessEntry was refused with a
\* ClientException that is not about an existing entry, and the Grant went on
\* and associated the policy.
C37_ClientExceptionSwallowed ==
    /\ plast.op = "Grant" /\ plast.fault = "entryClient"
    /\ plast.outcome = "applied"
    /\ plast.apiCalls = <<"CreateAccessEntry", "AssociateAccessPolicy">>
    /\ PlastBefore = NoScope /\ PlastAfter = ClusterAccess

\* A well-formed access scope of an association: none, the cluster, or a
\* non-empty list of namespaces without repetition.
WellFormedScope(s) ==
    \/ s = NoScope
    \/ s = ClusterAccess
    \/ /\ s.type = "namespace"
       /\ Len(s.namespaces) > 0
       /\ \A i, j \in DOMAIN s.namespaces : i # j => s.namespaces[i] # s.namespaces[j]

\* C34: after any sequence of access-policy Grant and Revoke calls every
\* (principal, policy) pair has no association, a cluster association, or a
\* namespace association with a non-empty namespace list free of duplicates;
\* an association of type cluster carries no namespace.
C34_AssociationWellFormed ==
    \A x \in DOMAIN assoc : WellFormedScope(assoc[x])

\* A namespace Grant merged into a namespace association, the result listing
\* two namespaces, while the other policy of the principal is associated with
\* the cluster.
C34_Witness ==
    /\ plast.op = "Grant" /\ plast.outcome = "applied"
    /\ plast.pre[<<plast.principal, plast.policy>>].type = "namespace"
    /\ Len(assoc[<<plast.principal, plast.policy>>].namespaces) = 2
    /\ \E q \in PolicyArns : assoc[<<plast.principal, q>>] = ClusterAccess

-----------------------------------------------------------------------------
(* Properties of the pure functions.                                        *)

\* C16: for every policy and every scope x, the cluster or a namespace, parsing
\* the entitlement ID emitted for x yields x again, and no other scope of the
\* policy is emitted under the same ID.
C16_ScopeRoundTrip ==
    fn.op = "parseEntitlementScope" =>
        /\ fn.out = fn.in.scope
        /\ \A other \in FnScopes \ {fn.in.scope} :
               EntitlementFor(fn.in.policy, other) # fn.in.id

\* The state in which C16 fails: the namespace named "cluster" gets the ID of
\* the cluster scope and is parsed as the cluster scope.
C16_NamespaceNamedCluster ==
    /\ fn.op = "parseEntitlementScope"
    /\ fn.in.scope = NamespaceAccess(<<"cluster">>)
    /\ fn.in.id = EntitlementFor(fn.in.policy, ClusterAccess)
    /\ fn.out = ClusterAccess

\* The rows of mapUsers and mapRoles the last getAwsAuthMappings read.
FnRowsRead ==
    (IF fn.in.mapUsers.state = "list" THEN fn.in.mapUsers.rows ELSE <<>>)
        \o (IF fn.in.mapRoles.state = "list" THEN fn.in.mapRoles.rows ELSE <<>>)

\* C18: every row of mapUsers or mapRoles whose username is absent or empty has
\* its ARN in usersMap under the ARN itself.
C18_AwsAuthSelfMaps ==
    (fn.op = "getAwsAuthMappings" /\ ~fn.out.err)
        => \A i \in DOMAIN FnRowsRead :
               FnRowsRead[i].username = ""
                   => Contains(MapGet(fn.out.users, FnRowsRead[i].arn), FnRowsRead[i].arn)

\* The state in which C18 fails: a mapRoles row without username leaves no
\* entry in usersMap, while its groups are recorded.
C18_RowWithoutUsernameDropped ==
    /\ fn.op = "getAwsAuthMappings" /\ ~fn.out.err
    /\ fn.in.mapUsers = YamlList("absent", <<>>)
    /\ fn.in.mapRoles = YamlList("list", <<MapRow(ArnOps, "", <<"ops">>)>>)
    /\ fn.out.users = EmptyMap
    /\ MapGet(fn.out.groups, "ops") = <<ArnOps>>

\* s begins with "arn:aws:iam::" and has ":user/" or ":role/" somewhere.
IamUserOrRole(s) ==
    LET c == Chars(s)
    IN  /\ Len(c) >= 13 /\ SubSeq(c, 1, 13) = Chars("arn:aws:iam::")
        /\ \E i \in 1..(Len(c) - 5) :
               SubSeq(c, i, i + 5) \in {Chars(":user/"), Chars(":role/")}

\* C20: isUserOrRoleArn answers for every string, with true exactly for the
\* strings that begin with "arn:aws:iam::" and contain ":user/" or ":role/";
\* an access entry of any other principal leaves nothing in the maps of
\* getAccessEntriesMappings.
C20_ClassifierExact ==
    /\ fn.op = "isUserOrRoleArn" =>
           (fn.out \in BOOLEAN /\ fn.out = IamUserOrRole(fn.in))
    /\ (fn.op = "getAccessEntriesMappings" /\ ~fn.out.err) =>
           \A i \in DOMAIN fn.in.entries :
               LET arn == fn.in.entries[i].arn
               IN  ~IamUserOrRole(arn) =>
                       /\ arn \notin DOMAIN fn.out.users
                       /\ \A k \in DOMAIN fn.out.users : ~Contains(fn.out.users[k], arn)
                       /\ \A k \in DOMAIN fn.out.groups : ~Contains(fn.out.groups[k], arn)

\* The access entry of the account root, with a username and a group, was read
\* before the one of an IAM user: the maps hold the user alone.
C20_Witness ==
    /\ fn.op = "getAccessEntriesMappings" /\ ~fn.out.err
    /\ fn.in.entries =
           <<AccessEntry("arn:aws:iam::111:root", "ok", "STANDARD", "root", <<"admins">>),
             AccessEntry(ArnAlice, "ok", "STANDARD", "alice", <<"devs">>)>>
    /\ fn.out.users = ("alice" :> <<ArnAlice>>)
    /\ fn.out.groups = ("devs" :> <<ArnAlice>>)

\* C21: processGrants returns one grant per ARN of its input, in the order of
\* the input, each on the given resource and entitlement; the principal of a
\* grant is an IAM role exactly when its ARN contains ":role/", an IAM user
\* otherwise; an empty input gives no grants.
HasRoleMarker(arn) ==
    LET c == Chars(arn)
    IN  \E i \in 1..(Len(c) - 5) : SubSeq(c, i, i + 5) = <<":", "r", "o", "l", "e", "/">>

C21_OneGrantPerArn ==
    fn.op = "processGrants" =>
        /\ Len(fn.out) = Len(fn.in.arns)
        /\ \A i \in DOMAIN fn.out :
               /\ fn.out[i].resource = fn.in.resource
               /\ fn.out[i].entitlement = fn.in.entID
               /\ fn.out[i].principal.resource = fn.in.arns[i]
               /\ fn.out[i].principal.resourceType =
                      IF HasRoleMarker(fn.in.arns[i]) THEN "iam_role" ELSE "iam_user"

\* A role and a user, in this order, gave a role grant and a user grant.
C21_Witness ==
    /\ fn.op = "processGrants"
    /\ fn.in.arns = <<ArnOps, ArnAlice>>
    /\ Len(fn.out) = 2
    /\ fn.out[1].principal = [resourceType |-> "iam_role", resource |-> ArnOps]
    /\ fn.out[2].principal = [resourceType |-> "iam_user", resource |-> ArnAlice]

RECURSIVE Flatten(_)
Flatten(pages) == IF Len(pages) = 0 THEN <<>> ELSE Head(pages) \o Flatten(Tail(pages))

\* The places of the pages that hold the entitlement "assigned:cluster".
AssignedClusterPlaces ==
    {x \in {<<p, i>> : p \in DOMAIN fn.out, i \in 1..(MaxListed + 1)} :
        /\ x[2] \in DOMAIN fn.out[x[1]]
        /\ fn.out[x[1]][x[2]] = EntitlementFor(fn.in.policy, ClusterAccess)}

\* C22: over a complete enumeration of the namespaces, Entitlements emits one
\* "assigned:<namespace>" entitlement per namespace listed, and exactly one
\* "assigned:cluster" entitlement, which is on the last page.
C22_OneClusterEntitlement ==
    fn.op = "Entitlements" =>
        /\ Len(Flatten(fn.out)) = Len(fn.in.namespaces) + 1
        /\ \A i \in DOMAIN fn.in.namespaces :
               Flatten(fn.out)[i] =
                   EntitlementFor(fn.in.policy, NamespaceAccess(<<fn.in.namespaces[i]>>))
        /\ Cardinality(AssignedClusterPlaces) = 1
        /\ \A x \in AssignedClusterPlaces : x[1] = Len(fn.out)

\* The state in which C22 fails: the namespace named "cluster" is on the first
\* of two pages, and both pages hold an entitlement "assigned:cluster".
C22_AssignedClusterOnFirstPage ==
    /\ fn.op = "Entitlements"
    /\ fn.in.namespaces = <<"cluster", "ns1">> /\ fn.in.limit = 1
    /\ Len(fn.out) = 2
    /\ fn.out[1] = <<EntitlementFor(fn.in.policy, ClusterAccess)>>
    /\ fn.out[2] = <<EntitlementFor(fn.in.policy, NamespaceAccess(<<"ns1">>)),
                     EntitlementFor(fn.in.policy, ClusterAccess)>>

\* The statement allows sts:AssumeRole: Effect Allow, and Action the string
\* "sts:AssumeRole" or a list that holds it.
AllowsAssumeRole(st) ==
    /\ st.effect = "Allow"
    /\ \/ st.action.kind = "string" /\ st.action.v = "sts:AssumeRole"
       \/ /\ st.action.kind = "list"
          /\ \E i \in DOMAIN st.action.items :
                 st.action.items[i] = JsonString("sts:AssumeRole")

\* The AWS principals of a statement: the string, or the strings of the list.
AwsPrincipalsOf(st) ==
    IF st.principal.AWS.kind = "string" THEN <<st.principal.AWS.v>>
    ELSE IF st.principal.AWS.kind = "list"
         THEN LET strs == SelectSeq(st.principal.AWS.items, LAMBDA a : a.kind = "string")
              IN  [i \in DOMAIN strs |-> strs[i].v]
    ELSE <<>>

RECURSIVE ExpectedPrincipals(_)
ExpectedPrincipals(statements) ==
    IF Len(statements) = 0 THEN <<>>
    ELSE (IF AllowsAssumeRole(Head(statements)) THEN AwsPrincipalsOf(Head(statements))
          ELSE <<>>) \o ExpectedPrincipals(Tail(statements))

\* No Action list names sts:AssumeRole more than once.
AssumeRoleNamedOnce(statements) ==
    \A s \in DOMAIN statements :
        \A i, j \in DOMAIN statements[s].action.items :
            (/\ statements[s].action.items[i] = JsonString("sts:AssumeRole")
             /\ statements[s].action.items[j] = JsonString("sts:AssumeRole")) => i = j

\* C23: GetIAMRoleTrustPrincipals returns the AWS principals (a string or a
\* list) of the statements with Effect Allow whose Action (a string or a list)
\* includes sts:AssumeRole, and nothing of Deny statements, of statements with
\* other actions, or of Service and Federated principals; the principals come
\* in the order of the statements, once per statement unless its Action list
\* repeats sts:AssumeRole.
C23_TrustPrincipals ==
    (fn.op = "GetIAMRoleTrustPrincipals" /\ ~fn.out.err)
        => /\ SeqSet(fn.out.principals) = SeqSet(ExpectedPrincipals(fn.in.statements))
           /\ AssumeRoleNamedOnce(fn.in.statements)
                  => fn.out.principals = ExpectedPrincipals(fn.in.statements)

\* A Deny statement for alice, and an Allow statement with an action list and
\* principals of three kinds: the AWS principal of the second alone is returned.
C23_Witness ==
    /\ fn.op = "GetIAMRoleTrustPrincipals" /\ ~fn.out.err
    /\ fn.in.statements =
           <<Statement("Deny", PrincipalMap(JsonString(ArnAlice), JsonAbsent, JsonAbsent),
                       JsonString("sts:AssumeRole")),
             Statement("Allow",
                       PrincipalMap(JsonString(ArnBob), JsonString("ecs-tasks.amazonaws.com"),
                                    JsonString("cognito-identity.amazonaws.com")),
                       JsonList(<<JsonString("sts:TagSession"),
                                  JsonString("sts:AssumeRole")>>))>>
    /\ fn.out.principals = <<ArnBob>>

\* The rows of a text that decode, and what a row contributes to the maps.
WellFormedRows(text) == {text[i].row : i \in {j \in DOMAIN text : text[j].decodes}}

RowContributes(row, out) ==
    /\ row.username # "" => row.arn \in SeqSet(MapGet(out.users, row.username))
    /\ \A g \in SeqSet(row.groups) : row.arn \in SeqSet(MapGet(out.groups, g))

\* C38: when a row of the mapUsers (or mapRoles) list does not parse, only that
\* row is skipped: the reader returns success and the well-formed rows of the
\* same list still contribute their user and group mappings.
C38_OnlyBadRowSkipped ==
    fn.op = "getAwsAuthMappingsOfText"
        => /\ ~fn.out.err
           /\ \A row \in WellFormedRows(fn.in.mapUsers) \cup WellFormedRows(fn.in.mapRoles) :
                  RowContributes(row, fn.out)

\* mapUsers holds the row of alice and a row that does not decode, mapRoles is
\* absent: the reader succeeds with no mapping at all.
C38_WholeListSkipped ==
    /\ fn.op = "getAwsAuthMappingsOfText"
    /\ fn.in.mapUsers = <<YamlRow(TRUE, MapRow(ArnAlice, "alice", <<"devs">>)),
                          YamlRow(FALSE, MapRow(ArnBob, "bob", <<"ops">>))>>
    /\ fn.in.mapRoles = <<>>
    /\ ~fn.out.err
    /\ fn.out.users = EmptyMap /\ fn.out.groups = EmptyMap

====
